---- MODULE Spec2Model ----
(***************************************************************************)
(* A model of the conversion orchestrator of diverce:                      *)
(*   - src/app/api/convert/route.ts     POST, startConversion,             *)
(*                                      safelyUpdateConversionStatus       *)
(*   - src/app/api/projects/[projectId]/route.ts                           *)
(*                                      the status feed (GET / sendUpdate) *)
(*   - src/app/lib/conversion-pipeline.ts   ConversionPipeline             *)
(*   - src/app/lib/git-utils.ts         cloneRepository, createBranch,     *)
(*                                      commitAndPush                      *)
(*   - src/app/lib/vercel-api.ts        getDefaultVercelClient, getProject *)
(*                                                                         *)
(* Text is modelled as a sequence of tokens (strings), so that template    *)
(* literals are concatenations and substring tests are token tests.  A log *)
(* line, a message, a URL are all token sequences.  The emoji that end     *)
(* some log lines in the source are left out of the tokens.                *)
(*                                                                         *)
(* JavaScript runs every handler to its next `await` without interleaving: *)
(* one action is one such run of a handler or of a continuation.           *)
(***************************************************************************)
EXTENDS Integers, Sequences, FiniteSets, TLC

VARIABLES
    processEnv,       \* process.env: is VERCEL_API_TOKEN set
    conversionStore,  \* global.conversionStore: project id -> Job
    tasks,            \* the startConversion invocations, in start order
    disk,             \* the storage root and the checkout of each project
    streams           \* the status feed subscriptions, in arrival order

vars == <<processEnv, conversionStore, tasks, disk, streams>>

----------------------------------------------------------------------------
(* Bounds of the model *)

\* start requests accepted in one behaviour of SpecOverlap
MaxStarts == 2
\* status feed subscriptions in one behaviour
MaxFeeds == 1
\* the count of snapshots a feed has sent is kept up to this value
MaxSent == 2

----------------------------------------------------------------------------
(* Optional values: an absent field is <<>>, a present one <<v>> *)

None == <<>>
Some(v) == <<v>>

\* a one-token line of text
L(s) == <<s>>

Last(s) == s[Len(s)]

Contains(s, x) == \E k \in 1..Len(s) : s[k] = x

Range(s) == {s[k] : k \in 1..Len(s)}

\* String.prototype.includes, on tokens
Includes(text, token) == Contains(text, token)

\* String.prototype.startsWith, on tokens
StartsWith(text, token) == Len(text) > 0 /\ text[1] = token

IsPrefix(s, t) == Len(s) <= Len(t) /\ SubSeq(t, 1, Len(s)) = s

ProjectIds == {"prj_1"}

----------------------------------------------------------------------------
(* The Job store *)

TerminalStatus == {"success", "failed"}

\* the entry POST writes
InitialJob ==
    [status |-> "cloning",
     logs |-> <<L("Initializing conversion process...")>>,
     message |-> None, result |-> None, error |-> None]

\* the entry safelyUpdateConversionStatus creates when there is none
IdleJob ==
    [status |-> "idle", logs |-> <<>>,
     message |-> None, result |-> None, error |-> None]

\* global.conversionStore[projectId].logs.push(...lines)
pushLogs(store, projectId, lines) ==
    [store EXCEPT ![projectId].logs = @ \o lines]

\* a safelyUpdateConversionStatus that drops the error
safelyUpdateWithoutError(store, projectId, status, message, error) ==
    LET s0 == IF projectId \in DOMAIN store
              THEN store
              ELSE store @@ (projectId :> IdleJob)
    IN [s0 EXCEPT ![projectId].status = status,
                  ![projectId].message = Some(message),
                  ![projectId].logs = Append(@, message)]

\* safelyUpdateConversionStatus(projectId, status, message, error):
\* `error` is the optional Error, given by its message
safelyUpdateConversionStatus(store, projectId, status, message, error) ==
    LET s0 == IF projectId \in DOMAIN store
              THEN store
              ELSE store @@ (projectId :> IdleJob)
        s1 == [s0 EXCEPT ![projectId].status = status,
                         ![projectId].message = Some(message),
                         ![projectId].logs = Append(@, message)]
    IN IF error # None
       THEN [s1 EXCEPT ![projectId].logs =
                           Append(@, <<"Error details: ">> \o error[1]),
                       ![projectId].error = Some(error[1])]
       ELSE s1

\* a catch of startConversion that only logs the error
catchUnexpectedLogsOnly(store, projectId, errorMessage) ==
    pushLogs(store, projectId,
        << <<"Conversion process failed unexpectedly: ">> \o errorMessage >>)

\* the catch block of startConversion, for a thrown Error with `errorMessage`
catchUnexpected(store, projectId, errorMessage) ==
    safelyUpdateConversionStatus(
        store, projectId, "failed",
        <<"Conversion process failed unexpectedly: ">> \o errorMessage,
        Some(errorMessage))

----------------------------------------------------------------------------
(* Inputs: the start request's options and the source platform's answers *)

\* the body of a start request carries no options object
NoOptions ==
    [defined |-> FALSE, enableKVCache |-> FALSE, kvNamespaceId |-> "",
     createBranch |-> FALSE, branchName |-> "", commitAndPush |-> FALSE,
     packageJsonPath |-> ""]

Options(kv, ns, cb, bn, cp, pj) ==
    [defined |-> TRUE, enableKVCache |-> kv, kvNamespaceId |-> ns,
     createBranch |-> cb, branchName |-> bn, commitAndPush |-> cp,
     packageJsonPath |-> pj]

\* the options a start request may carry
RequestOptions ==
    { NoOptions,
      Options(FALSE, "", FALSE, "", FALSE, ""),
      Options(FALSE, "", TRUE, "cloudflare-migration", FALSE, ""),
      Options(TRUE, "abc", TRUE, "cloudflare-migration", TRUE, ""),
      Options(TRUE, "", TRUE, "", TRUE, "src") }

GitRepository(type, repo, url, branch) ==
    [type |-> type, repo |-> repo, url |-> url, defaultBranch |-> branch]

Link(type, org, repo, branch) ==
    [type |-> type, org |-> org, repo |-> repo, productionBranch |-> branch]

VercelProject(name, gitRepository, link) ==
    [name |-> name, gitRepository |-> gitRepository, link |-> link]

\* the projects client.getProject may answer with
VercelProjects ==
    { VercelProject("site",
          Some(GitRepository("github", <<"acme/site">>,
                             <<"https://", "github.com/", "acme/site">>, "main")),
          None),
      VercelProject("site",
          Some(GitRepository("github", <<"acme/site">>, <<"acme/site">>, "main")),
          None),
      VercelProject("site", None, Some(Link("github", "acme", "site", "main"))),
      VercelProject("site", None, Some(Link("gitlab", "acme", "site", "main"))),
      VercelProject("site",
          Some(GitRepository("github", <<"acme/site">>,
                             <<"git@", "github.com:", "acme/site.git">>, "release")),
          Some(Link("github", "other", "fork", "main"))),
      VercelProject("site", None, None) }

\* the Error getDefaultVercelClient throws without a token
MissingTokenError == L("Missing VERCEL_API_TOKEN in environment variables")

\* the Errors client.getProject may throw
GetProjectErrors == { L("Request failed with status code 404") }

\* the TypeError of reading a property of an undefined options object
UndefinedOptionsError ==
    L("Cannot read properties of undefined (reading 'createBranch')")

----------------------------------------------------------------------------
(* The working tree of a checkout: the files the pipeline reads and writes *)

\* the directories a manifest may live in: the checkout root and a sub-path
Dirs == {".", "src"}

\* package.json as parsed: an invalid file has valid = FALSE
Manifest(deps, devDeps, scripts) ==
    [valid |-> TRUE, dependencies |-> deps, devDependencies |-> devDeps,
     scripts |-> scripts]

InvalidManifest ==
    [valid |-> FALSE, dependencies |-> {}, devDependencies |-> {},
     scripts |-> None]

\* a source file declaring the edge runtime: where it is and how it is spelled
EdgeDecl(dir, quote, semi) == [dir |-> dir, quote |-> quote, semi |-> semi]

EmptyTree ==
    [packageJson |-> [d \in Dirs |-> None],
     openNextConfig |-> [d \in Dirs |-> None],
     wrangler |-> [d \in Dirs |-> None],
     gitignore |-> [d \in Dirs |-> None],
     nodeModules |-> {},
     edge |-> {}]

\* a Next.js project with its manifest at the root
NextTree ==
    [EmptyTree EXCEPT
        !.packageJson["."] =
            Some(Manifest({"next", "react"}, {"typescript"},
                          Some("dev" :> "next dev"))),
        !.gitignore["."] = Some(<<"node_modules", ".next">>)]

\* a Next.js project on the legacy adapter, with edge runtime declarations
LegacyTree ==
    [EmptyTree EXCEPT
        !.packageJson["."] =
            Some(Manifest({"react", "@cloudflare/next-on-pages"},
                          {"next", "@cloudflare/next-on-pages"}, None)),
        !.edge = {EdgeDecl(".", "double", TRUE), EdgeDecl("src", "single", TRUE)}]

\* a project that is not a Next.js project
NotNextTree ==
    [EmptyTree EXCEPT
        !.packageJson["."] = Some(Manifest({"react"}, {}, None)),
        !.gitignore["."] = Some(<<"node_modules">>)]

\* a Next.js project whose manifest is in the sub-path only
SubPathTree ==
    [EmptyTree EXCEPT
        !.packageJson["src"] =
            Some(Manifest({"next"}, {}, Some("dev" :> "next dev"))),
        !.gitignore["src"] = Some(<<".open-next">>)]

\* a project whose manifest does not parse
BrokenTree == [EmptyTree EXCEPT !.packageJson["."] = Some(InvalidManifest)]

\* the trees a remote repository may hold
RemoteTrees == {NextTree, LegacyTree, NotNextTree, SubPathTree, BrokenTree}

\* what the environment does to an external command and to a file write
IoChoices == [exec : BOOLEAN, write : BOOLEAN]

----------------------------------------------------------------------------
(* ConversionPipeline: the seven steps, as functions of the pipeline's     *)
(* options and log, the working tree and the environment's choice          *)

ConversionOptions(projectPath, projectName, kv, ns, pj) ==
    [projectPath |-> projectPath, projectName |-> projectName,
     enableKVCache |-> kv, kvNamespaceId |-> ns, packageJsonPath |-> pj]

\* the directory of the manifest: path.join(projectPath, packageJsonPath)
getPackageJsonPath(options) ==
    IF options.packageJsonPath # "" THEN options.packageJsonPath ELSE "."

\* a step that returned, and a step that threw an Error with message `msg`
Completed(logs, tree) == [logs |-> logs, tree |-> tree, error |-> None]
Thrown(logs, tree, msg) == [logs |-> logs, tree |-> tree, error |-> Some(msg)]

JsonSyntaxError == L("Unexpected token in JSON at position 0")
NoSuchFileError == L("ENOENT: no such file or directory")
WriteError == L("EACCES: permission denied")
CommandError == L("Command failed")

NotNextJsText == "does not appear to be a Next.js project"

\* grep -r 'export const runtime = "edge"' . in projectPath: the files of
\* the whole checkout that spell the declaration with double quotes
grepEdgeRuntime(tree) == {e \in tree.edge : e.quote = "double"}

\* find . | xargs sed 's/export const runtime = .edge.;/.../g' in searchDir:
\* the files under searchDir that spell it with any quote and a semicolon
sedEdgeRuntime(searchDir, tree) ==
    {e \in tree.edge : e.semi /\ (searchDir = "." \/ e.dir = searchDir)}

EdgeWarning ==
    L("WARNING: Edge Runtime usage detected. These will be removed during conversion.")

NoEdgeUsage == L("No Edge Runtime usage detected")

\* a step 1 in which a scan that fails is an error
verifyScanFailureFatal(options, logs, tree, io) ==
    LET dir == getPackageJsonPath(options)
        l1 == Append(logs, L("Verifying Next.js project..."))
        l2 == IF options.packageJsonPath # ""
              THEN Append(l1, <<"Using custom package.json path: ",
                                options.packageJsonPath>>)
              ELSE l1
        file == tree.packageJson[dir]
    IN IF file = None
       THEN Thrown(l2, tree, <<"Could not find package.json at ",
                               options.projectPath, "/", dir, "/package.json">>)
       ELSE IF ~file[1].valid
       THEN Thrown(l2, tree, JsonSyntaxError)
       ELSE IF "next" \notin file[1].dependencies
               /\ "next" \notin file[1].devDependencies
       THEN Thrown(l2, tree, <<"This project ", NotNextJsText,
                               " (next package not found)">>)
       ELSE LET l3 == l2 \o <<L("Next.js project verified"),
                              L("Checking for Edge Runtime usage...")>>
                stdout == grepEdgeRuntime(tree)
            IN IF ~io.exec THEN Thrown(l3, tree, CommandError)
               ELSE IF stdout # {}
               THEN Completed(Append(l3, EdgeWarning), tree)
               ELSE Completed(Append(l3, NoEdgeUsage), tree)

\* a step 1 that looks for next among the runtime dependencies only
verifyRuntimeDependenciesOnly(options, logs, tree, io) ==
    LET dir == getPackageJsonPath(options)
        l1 == Append(logs, L("Verifying Next.js project..."))
        l2 == IF options.packageJsonPath # ""
              THEN Append(l1, <<"Using custom package.json path: ",
                                options.packageJsonPath>>)
              ELSE l1
        file == tree.packageJson[dir]
    IN IF file = None
       THEN Thrown(l2, tree, <<"Could not find package.json at ",
                               options.projectPath, "/", dir, "/package.json">>)
       ELSE IF ~file[1].valid
       THEN Thrown(l2, tree, JsonSyntaxError)
       ELSE IF "next" \notin file[1].dependencies
       THEN Thrown(l2, tree, <<"This project ", NotNextJsText,
                               " (next package not found)">>)
       ELSE LET l3 == l2 \o <<L("Next.js project verified"),
                              L("Checking for Edge Runtime usage...")>>
                stdout == grepEdgeRuntime(tree)
            IN IF io.exec /\ stdout # {}
               THEN Completed(Append(l3, EdgeWarning), tree)
               ELSE Completed(Append(l3, NoEdgeUsage), tree)

\* Step 1
verifyNextJsProject(options, logs, tree, io) ==
    LET dir == getPackageJsonPath(options)
        l1 == Append(logs, L("Verifying Next.js project..."))
        l2 == IF options.packageJsonPath # ""
              THEN Append(l1, <<"Using custom package.json path: ",
                                options.packageJsonPath>>)
              ELSE l1
        file == tree.packageJson[dir]
    IN IF file = None
       THEN Thrown(l2, tree, <<"Could not find package.json at ",
                               options.projectPath, "/", dir, "/package.json">>)
       ELSE IF ~file[1].valid
       THEN Thrown(l2, tree, JsonSyntaxError)
       ELSE IF "next" \notin file[1].dependencies
               /\ "next" \notin file[1].devDependencies
       THEN Thrown(l2, tree, <<"This project ", NotNextJsText,
                               " (next package not found)">>)
       ELSE LET l3 == l2 \o <<L("Next.js project verified"),
                              L("Checking for Edge Runtime usage...")>>
                stdout == grepEdgeRuntime(tree)
            IN IF io.exec /\ stdout # {}
               THEN Completed(Append(l3, EdgeWarning), tree)
               ELSE Completed(Append(l3, NoEdgeUsage), tree)

OpenNextPackages == {"@opennextjs/cloudflare", "wrangler"}

\* Step 2
installDependencies(options, logs, tree, io) ==
    LET dir == getPackageJsonPath(options)
        l1 == Append(logs, L("Installing OpenNext dependencies..."))
        l2 == IF options.packageJsonPath # ""
              THEN Append(l1, <<"Installing dependencies in custom directory: ",
                                options.projectPath, "/", options.packageJsonPath>>)
              ELSE l1
        file == tree.packageJson[dir]
        \* npm install --save-dev records the packages in the manifest
        saved == IF file = None
                 THEN Manifest({}, OpenNextPackages, None)
                 ELSE [file[1] EXCEPT
                          !.dependencies = @ \ OpenNextPackages,
                          !.devDependencies = @ \cup OpenNextPackages]
    IN IF ~io.exec \/ (file # None /\ ~file[1].valid)
       THEN Thrown(l2, tree, <<"Failed to install dependencies: ">> \o CommandError)
       ELSE Completed(Append(l2, L("Dependencies installed successfully")),
                [tree EXCEPT !.packageJson[dir] = Some(saved),
                             !.nodeModules = @ \cup {dir}])

KvImportLine ==
    "import kvIncrementalCache from \"@opennextjs/cloudflare/overrides/incremental-cache/kv-incremental-cache\";"

\* an open-next.config.ts that uses the cache only with a namespace id
openNextConfigTextNeedsId(options) ==
    LET useKv == options.enableKVCache /\ options.kvNamespaceId # ""
    IN << "import { defineCloudflareConfig } from \"@opennextjs/cloudflare\";",
          IF useKv THEN KvImportLine ELSE "",
          "",
          "export default defineCloudflareConfig({",
          IF useKv THEN "  incrementalCache: kvIncrementalCache," ELSE "",
          "});" >>

\* the text of open-next.config.ts, line by line
openNextConfigText(options) ==
    << "import { defineCloudflareConfig } from \"@opennextjs/cloudflare\";",
       IF options.enableKVCache THEN KvImportLine ELSE "",
       "",
       "export default defineCloudflareConfig({",
       IF options.enableKVCache THEN "  incrementalCache: kvIncrementalCache," ELSE "",
       "});" >>

\* Step 3
createOpenNextConfig(options, logs, tree, io) ==
    LET configDir == getPackageJsonPath(options)
        l1 == Append(logs, L("Creating or updating open-next.config.ts..."))
    IN IF ~io.write
       THEN Thrown(l1, tree, WriteError)
       ELSE Completed(Append(l1, L("open-next.config.ts created/updated")),
                [tree EXCEPT !.openNextConfig[configDir] =
                                 Some(openNextConfigText(options))])

\* a wrangler.jsonc that binds the namespace whenever the cache is enabled
wranglerConfigBindsAnyId(options) ==
    [schema |-> "node_modules/wrangler/config-schema.json",
     main |-> ".open-next/worker.js",
     name |-> options.projectName,
     compatibility_date |-> "2024-12-30",
     compatibility_flags |-> <<"nodejs_compat">>,
     assets |-> [directory |-> ".open-next/assets", binding |-> "ASSETS"],
     kv_namespaces |->
        IF options.enableKVCache
        THEN <<[binding |-> "NEXT_CACHE_WORKERS_KV", id |-> options.kvNamespaceId]>>
        ELSE <<>>]

\* the document of wrangler.jsonc, field by field
wranglerConfig(options) ==
    [schema |-> "node_modules/wrangler/config-schema.json",
     main |-> ".open-next/worker.js",
     name |-> options.projectName,
     compatibility_date |-> "2024-12-30",
     compatibility_flags |-> <<"nodejs_compat">>,
     assets |-> [directory |-> ".open-next/assets", binding |-> "ASSETS"],
     kv_namespaces |->
        IF options.enableKVCache /\ options.kvNamespaceId # ""
        THEN <<[binding |-> "NEXT_CACHE_WORKERS_KV", id |-> options.kvNamespaceId]>>
        ELSE <<>>]

\* Step 4
createWranglerConfig(options, logs, tree, io) ==
    LET configDir == getPackageJsonPath(options)
        l1 == Append(logs, L("Creating or updating wrangler.jsonc..."))
    IN IF ~io.write
       THEN Thrown(l1, tree, WriteError)
       ELSE Completed(Append(l1, L("wrangler.jsonc created/updated")),
                [tree EXCEPT !.wrangler[configDir] = Some(wranglerConfig(options))])

\* the three script entries step 5 sets
CloudflareScripts ==
    ("preview" :> "opennextjs-cloudflare build && wrangler dev")
    @@ ("deploy" :> "opennextjs-cloudflare build && wrangler deploy")
    @@ ("cf-typegen" :> "wrangler types --env-interface CloudflareEnv cloudflare-env.d.ts")

\* a step 5 that writes a scripts section of the three entries only
updatePackageJsonReplacesScripts(options, logs, tree, io) ==
    LET dir == getPackageJsonPath(options)
        l1 == Append(logs, L("Updating package.json scripts..."))
        file == tree.packageJson[dir]
    IN IF file = None THEN Thrown(l1, tree, NoSuchFileError)
       ELSE IF ~file[1].valid THEN Thrown(l1, tree, JsonSyntaxError)
       ELSE IF ~io.write THEN Thrown(l1, tree, WriteError)
       ELSE Completed(Append(l1, L("package.json scripts updated")),
                [tree EXCEPT !.packageJson[dir] =
                    Some([file[1] EXCEPT !.scripts = Some(CloudflareScripts)])])

\* Step 5
updatePackageJson(options, logs, tree, io) ==
    LET dir == getPackageJsonPath(options)
        l1 == Append(logs, L("Updating package.json scripts..."))
        file == tree.packageJson[dir]
        scripts == IF file[1].scripts = None THEN <<>> ELSE file[1].scripts[1]
    IN IF file = None THEN Thrown(l1, tree, NoSuchFileError)
       ELSE IF ~file[1].valid THEN Thrown(l1, tree, JsonSyntaxError)
       ELSE IF ~io.write THEN Thrown(l1, tree, WriteError)
       ELSE Completed(Append(l1, L("package.json scripts updated")),
                [tree EXCEPT !.packageJson[dir] =
                    Some([file[1] EXCEPT !.scripts = Some(CloudflareScripts @@ scripts)])])

LegacyAdapter == "@cloudflare/next-on-pages"

\* a step 6 in which a failing substitution command is an error
removeConflictingReferencesNoteFatal(options, logs, tree, io) ==
    LET dir == getPackageJsonPath(options)
        l1 == Append(logs, L("Removing conflicting references..."))
        file == tree.packageJson[dir]
        inDeps == LegacyAdapter \in file[1].dependencies
        inDev == LegacyAdapter \in file[1].devDependencies
        l2 == IF inDeps
              THEN Append(l1, L("Removed @cloudflare/next-on-pages from dependencies"))
              ELSE l1
        l3 == IF inDev
              THEN Append(l2, L("Removed @cloudflare/next-on-pages from devDependencies"))
              ELSE l2
        cleaned == [file[1] EXCEPT !.dependencies = @ \ {LegacyAdapter},
                                   !.devDependencies = @ \ {LegacyAdapter}]
        t1 == [tree EXCEPT !.packageJson[dir] = Some(cleaned)]
        replaced == sedEdgeRuntime(dir, tree)
    IN IF file = None THEN Thrown(l1, tree, NoSuchFileError)
       ELSE IF ~file[1].valid THEN Thrown(l1, tree, JsonSyntaxError)
       ELSE IF (inDeps \/ inDev) /\ ~io.write
       THEN Thrown(IF inDeps THEN l2 ELSE l3, tree, WriteError)
       ELSE IF io.exec
       THEN Completed(l3 \o <<L("Removed edge runtime declarations from files"),
                              L("Conflicting references removed")>>,
                      [t1 EXCEPT !.edge = @ \ replaced])
       ELSE Thrown(l3, t1, CommandError)

\* Step 6
removeConflictingReferences(options, logs, tree, io) ==
    LET dir == getPackageJsonPath(options)
        l1 == Append(logs, L("Removing conflicting references..."))
        file == tree.packageJson[dir]
        inDeps == LegacyAdapter \in file[1].dependencies
        inDev == LegacyAdapter \in file[1].devDependencies
        l2 == IF inDeps
              THEN Append(l1, L("Removed @cloudflare/next-on-pages from dependencies"))
              ELSE l1
        l3 == IF inDev
              THEN Append(l2, L("Removed @cloudflare/next-on-pages from devDependencies"))
              ELSE l2
        cleaned == [file[1] EXCEPT !.dependencies = @ \ {LegacyAdapter},
                                   !.devDependencies = @ \ {LegacyAdapter}]
        t1 == [tree EXCEPT !.packageJson[dir] = Some(cleaned)]
        replaced == sedEdgeRuntime(dir, tree)
    IN IF file = None THEN Thrown(l1, tree, NoSuchFileError)
       ELSE IF ~file[1].valid THEN Thrown(l1, tree, JsonSyntaxError)
       ELSE IF (inDeps \/ inDev) /\ ~io.write
       THEN Thrown(IF inDeps THEN l2 ELSE l3, tree, WriteError)
       ELSE IF io.exec
       THEN Completed(l3 \o <<L("Removed edge runtime declarations from files"),
                              L("Conflicting references removed")>>,
                      [t1 EXCEPT !.edge = @ \ replaced])
       ELSE Completed(l3 \o <<L("Note: Could not automatically remove edge runtime declarations. You may need to remove these manually."),
                              L("Conflicting references removed")>>,
                      t1)

\* content.includes('.open-next'), for the lines an ignore file may hold
MentionsOpenNext(line) ==
    line \in {".open-next", ".open-next/", "/.open-next", ".open-next.bak"}

\* a step 7 that appends the entry without looking for it
updateGitignoreAlwaysAppends(options, logs, tree, io) ==
    LET l1 == Append(logs, L("Updating .gitignore..."))
        useSub == /\ options.packageJsonPath # ""
                  /\ tree.gitignore["."] = None
                  /\ tree.gitignore[options.packageJsonPath] # None
        gitignorePath == IF useSub THEN options.packageJsonPath ELSE "."
        l2 == IF useSub
              THEN Append(l1, <<"Using .gitignore from subfolder: ",
                                options.packageJsonPath, "/.gitignore">>)
              ELSE l1
        exists == tree.gitignore[gitignorePath] # None
        content == IF exists THEN tree.gitignore[gitignorePath][1] ELSE <<>>
        l3 == IF exists THEN l2
              ELSE Append(l2, L("No existing .gitignore found, creating a new one"))
    IN IF ~io.write THEN Thrown(l3, tree, WriteError)
       ELSE Completed(Append(l3, L("Added .open-next to .gitignore")),
                [tree EXCEPT !.gitignore[gitignorePath] =
                    Some(content \o <<"", "# OpenNext build output", ".open-next">>)])

\* Step 7
updateGitignore(options, logs, tree, io) ==
    LET l1 == Append(logs, L("Updating .gitignore..."))
        useSub == /\ options.packageJsonPath # ""
                  /\ tree.gitignore["."] = None
                  /\ tree.gitignore[options.packageJsonPath] # None
        gitignorePath == IF useSub THEN options.packageJsonPath ELSE "."
        l2 == IF useSub
              THEN Append(l1, <<"Using .gitignore from subfolder: ",
                                options.packageJsonPath, "/.gitignore">>)
              ELSE l1
        exists == tree.gitignore[gitignorePath] # None
        content == IF exists THEN tree.gitignore[gitignorePath][1] ELSE <<>>
        l3 == IF exists THEN l2
              ELSE Append(l2, L("No existing .gitignore found, creating a new one"))
    IN IF \E k \in 1..Len(content) : MentionsOpenNext(content[k])
       THEN Completed(Append(l3, L(".open-next already in .gitignore")), tree)
       ELSE IF ~io.write THEN Thrown(l3, tree, WriteError)
       ELSE Completed(Append(l3, L("Added .open-next to .gitignore")),
                [tree EXCEPT !.gitignore[gitignorePath] =
                    Some(content \o <<"", "# OpenNext build output", ".open-next">>)])

\* a run() that installs before it verifies
StepOrderSwapped ==
    << "installDependencies", "verifyNextJsProject", "createOpenNextConfig",
       "createWranglerConfig", "updatePackageJson",
       "removeConflictingReferences", "updateGitignore" >>

\* the steps of run(), in the order run() awaits them
StepOrder ==
    << "verifyNextJsProject", "installDependencies", "createOpenNextConfig",
       "createWranglerConfig", "updatePackageJson",
       "removeConflictingReferences", "updateGitignore" >>

\* the value of `next` of a pipeline whose run() has returned
Returned == Len(StepOrder) + 1

runStep(name, options, logs, tree, io) ==
    CASE name = "verifyNextJsProject" -> verifyNextJsProject(options, logs, tree, io)
      [] name = "installDependencies" -> installDependencies(options, logs, tree, io)
      [] name = "createOpenNextConfig" -> createOpenNextConfig(options, logs, tree, io)
      [] name = "createWranglerConfig" -> createWranglerConfig(options, logs, tree, io)
      [] name = "updatePackageJson" -> updatePackageJson(options, logs, tree, io)
      [] name = "removeConflictingReferences" ->
             removeConflictingReferences(options, logs, tree, io)
      [] name = "updateGitignore" -> updateGitignore(options, logs, tree, io)

ConversionResult(success, message, logs) ==
    [success |-> success, message |-> message, logs |-> logs]

\* new ConversionPipeline(options), and the first statement of run().
\* `next` is the step run() awaits next, `calls` the steps it has called.
newPipeline(options) ==
    [options |-> options,
     logs |-> <<L("Starting conversion pipeline...")>>,
     next |-> 1, calls |-> <<>>, result |-> None]

\* a pipeline that was not constructed
NoPipeline ==
    [options |-> ConversionOptions("", "", FALSE, "", ""),
     logs |-> <<>>, next |-> 0, calls |-> <<>>, result |-> None]

SuccessMessage == L("Project successfully converted to use @opennextjs/cloudflare")

\* a run() whose catch logs the error and goes on with the next step
runContinues(pipeline, tree, io) ==
    LET name == StepOrder[pipeline.next]
        r == runStep(name, pipeline.options, pipeline.logs, tree, io)
        called == [pipeline EXCEPT !.calls = Append(@, name)]
        logs == IF r.error # None
                THEN Append(r.logs, <<"Error during conversion: ">> \o r.error[1])
                ELSE r.logs
    IN IF pipeline.next = Len(StepOrder)
       THEN [pipeline |->
                [called EXCEPT
                    !.logs = Append(logs, L("Conversion completed successfully!")),
                    !.next = Returned,
                    !.result = Some(ConversionResult(TRUE, SuccessMessage,
                                  Append(logs, L("Conversion completed successfully!"))))],
             tree |-> r.tree]
       ELSE [pipeline |-> [called EXCEPT !.logs = logs, !.next = @ + 1],
             tree |-> r.tree]

\* run(), from the step it awaits to the next one: the step either returns,
\* and run() goes on (after the last step, to its return), or throws, and
\* the catch of run() logs the error and returns the failure
run(pipeline, tree, io) ==
    LET name == StepOrder[pipeline.next]
        r == runStep(name, pipeline.options, pipeline.logs, tree, io)
        called == [pipeline EXCEPT !.calls = Append(@, name)]
    IN IF r.error # None
       THEN LET logs == Append(r.logs, <<"Error during conversion: ">> \o r.error[1])
            IN [pipeline |->
                   [called EXCEPT
                       !.logs = logs, !.next = Returned,
                       !.result = Some(ConversionResult(FALSE,
                                     <<"Conversion failed: ">> \o r.error[1], logs))],
                tree |-> r.tree]
       ELSE IF pipeline.next = Len(StepOrder)
       THEN LET logs == Append(r.logs, L("Conversion completed successfully!"))
            IN [pipeline |->
                   [called EXCEPT
                       !.logs = logs, !.next = Returned,
                       !.result = Some(ConversionResult(TRUE, SuccessMessage, logs))],
                tree |-> r.tree]
       ELSE [pipeline |-> [called EXCEPT !.logs = r.logs, !.next = @ + 1],
             tree |-> r.tree]

----------------------------------------------------------------------------
(* git-utils: the local storage and the three git operations *)

\* the directory storagePath/projectId is named by its projectId
Checkout(kind, branch, branches, tree, origin, pushed) ==
    [kind |-> kind, branch |-> branch, branches |-> branches, tree |-> tree,
     origin |-> origin, pushed |-> pushed]

\* no directory
AbsentCheckout == Checkout("absent", "", {}, EmptyTree, <<>>, {})

\* a directory that is no git repository
OtherDirectory == Checkout("other", "", {}, EmptyTree, <<>>, {})

\* the branch a clone without -b checks out
RemoteDefaultBranch == "main"

Whitespace == {" "}
Quotes == {"'", "\""}

RECURSIVE trimStart(_)
trimStart(text) ==
    IF text # <<>> /\ text[1] \in Whitespace THEN trimStart(Tail(text)) ELSE text

RECURSIVE trimEnd(_)
trimEnd(text) ==
    IF text # <<>> /\ Last(text) \in Whitespace
    THEN trimEnd(SubSeq(text, 1, Len(text) - 1))
    ELSE text

\* String.prototype.trim
trim(text) == trimEnd(trimStart(text))

IsNoQuote(token) == token \notin Quotes

\* repoUrl.trim().replace(/['"]/g, '')
cleanRepoUrl(repoUrl) == SelectSeq(trim(repoUrl), IsNoQuote)

\* the Errors git.clone may throw
CloneErrors ==
    { <<"fatal: ", "Authentication failed", " for the remote">>,
      <<"fatal: repository ", "not found">>,
      <<"fatal: destination path ", "already exists", " and is not an empty directory.">>,
      <<"fatal: unable to access the remote">>,
      <<"remote: Repository ", "not found", ". fatal: ", "Authentication failed">> }

\* a classification that looks for "not found" first
cloneErrorMessageNotFoundFirst(errorMessage) ==
    IF Includes(errorMessage, "not found")
    THEN L("Repository not found. Please verify the URL is correct.")
    ELSE IF Includes(errorMessage, "Authentication failed")
    THEN L("Authentication failed. This may be a private repository that requires credentials.")
    ELSE IF Includes(errorMessage, "already exists")
    THEN L("Directory already exists and is not empty.")
    ELSE errorMessage

\* the message the catch of cloneRepository reports for a clone error
cloneErrorMessage(errorMessage) ==
    IF Includes(errorMessage, "Authentication failed")
    THEN L("Authentication failed. This may be a private repository that requires credentials.")
    ELSE IF Includes(errorMessage, "not found")
    THEN L("Repository not found. Please verify the URL is correct.")
    ELSE IF Includes(errorMessage, "already exists")
    THEN L("Directory already exists and is not empty.")
    ELSE errorMessage

CloneResult(success, path, message, error) ==
    [success |-> success, path |-> path, message |-> message, error |-> error]

\* what the environment does during one cloneRepository: whether mkdirSync,
\* checkIsRepo, checkout, pull and the two rmSync succeed, the Error of
\* git.clone if it throws, and the tree the remote holds.  Choices that
\* differ only in an outcome cloneRepository does not get to read (whatever
\* the disk) are the same choice: of those only one is kept.
CloneChoices ==
    { c \in [mkdir : BOOLEAN, checkIsRepo : BOOLEAN, checkout : BOOLEAN,
             pull : BOOLEAN, rm : BOOLEAN, rmAgain : BOOLEAN,
             clone : {None} \cup {Some(e) : e \in CloneErrors},
             remote : RemoteTrees] :
        /\ c.clone # None => c.remote = NextTree
        /\ ~c.mkdir => /\ c.checkIsRepo /\ c.rmAgain
                       /\ c.clone = None /\ c.remote = NextTree
        /\ ~c.checkIsRepo => c.checkout /\ c.pull /\ c.rm
        /\ (~c.pull \/ ~c.checkout) => c.rm
        /\ (c.checkIsRepo /\ c.pull /\ c.rm) => c.rmAgain }

\* a call cloneRepository makes to git or to the file system, and whether it
\* returned (ok) or threw; `url` and `branch` are its arguments, if it has any
GitCall(op, url, branch, ok) ==
    [op |-> op, url |-> url, branch |-> branch, ok |-> ok]

\* what cloneRepository returns, the disk it leaves and the calls it made
Acquired(result, d, calls) == [result |-> result, disk |-> d, calls |-> calls]

\* the clone proper, lines 102-144: the directory is absent by now
gitClone(d, projectId, repoUrl, branch, ch, calls) ==
    LET called == Append(calls, GitCall("clone", cleanRepoUrl(repoUrl), branch,
                                        ch.clone = None))
    IN IF ch.clone = None
       THEN Acquired(CloneResult(TRUE, projectId,
                         L("Repository cloned successfully."), None),
                     [d EXCEPT !.checkout[projectId] =
                         LET b == IF branch # "" THEN branch ELSE RemoteDefaultBranch
                         IN Checkout("repo", b, {b}, ch.remote,
                                     cleanRepoUrl(repoUrl), {})],
                     called)
       ELSE Acquired(CloneResult(FALSE, projectId,
                         <<"Failed to clone repository: ">>
                             \o cloneErrorMessage(ch.clone[1]),
                         ch.clone),
                     d, called)

\* an inner catch that clones over the directory as it is
retryCloneKeepsDirectory(d, projectId, repoUrl, branch, ch, calls) ==
    gitClone(d, projectId, repoUrl, branch, ch, calls)

\* the inner catch, lines 85-99: remove the directory and go on to the clone
retryClone(d, projectId, repoUrl, branch, ch, calls) ==
    LET called == Append(calls, GitCall("rmSync", <<>>, "", ch.rmAgain))
    IN IF ch.rmAgain
       THEN gitClone([d EXCEPT !.checkout[projectId] = AbsentCheckout],
                     projectId, repoUrl, branch, ch, called)
       ELSE Acquired(CloneResult(FALSE, projectId,
                         <<"Failed to prepare directory for cloning: ">>
                             \o WriteError,
                         Some(WriteError)),
                     d, called)

\* an update of the checkout in which a failed checkout is an error
pullExistingCheckoutFatal(d, projectId, repoUrl, branch, ch, calls) ==
    LET c1 == IF branch # ""
              THEN Append(calls, GitCall("checkout", <<>>, branch, ch.checkout))
              ELSE calls
        c2 == Append(c1, GitCall("pull", <<>>, "", ch.pull))
        switched == IF branch # ""
                    THEN [d EXCEPT !.checkout[projectId].branch = branch,
                                   !.checkout[projectId].branches = @ \cup {branch}]
                    ELSE d
    IN IF branch # "" /\ ~ch.checkout
       THEN retryClone(d, projectId, repoUrl, branch, ch, c1)
       ELSE IF ch.pull
       THEN Acquired(CloneResult(TRUE, projectId,
                         L("Repository already exists locally. Pulled latest changes."),
                         None),
                     switched, c2)
       ELSE retryClone(switched, projectId, repoUrl, branch, ch, c2)

\* the directory is a repository, lines 63-80: localGit.checkout(branch), of
\* which a failure is only warned about, then localGit.pull()
pullExisting(d, projectId, repoUrl, branch, ch, calls) ==
    LET c1 == IF branch # ""
              THEN Append(calls, GitCall("checkout", <<>>, branch, ch.checkout))
              ELSE calls
        c2 == Append(c1, GitCall("pull", <<>>, "", ch.pull))
        switched == IF branch # "" /\ ch.checkout
                    THEN [d EXCEPT !.checkout[projectId].branch = branch,
                                   !.checkout[projectId].branches = @ \cup {branch}]
                    ELSE d
    IN IF ch.pull
       THEN Acquired(CloneResult(TRUE, projectId,
                         L("Repository already exists locally. Pulled latest changes."),
                         None),
                     switched, c2)
       ELSE retryClone(switched, projectId, repoUrl, branch, ch, c2)

\* cloneRepository({repoUrl, projectId, branch, storagePath}) on disk d
cloneRepository(d, projectId, repoUrl, branch, ch) ==
    LET dir == d.checkout[projectId]
        d1 == [d EXCEPT !.storage = TRUE]
        c0 == IF d.storage THEN <<>>
              ELSE <<GitCall("mkdirSync", <<>>, "", ch.mkdir)>>
        c1 == Append(c0, GitCall("checkIsRepo", <<>>, "", ch.checkIsRepo))
    IN IF ~d.storage /\ ~ch.mkdir
       THEN Acquired(CloneResult(FALSE, projectId,
                         <<"Failed to create storage directory: ">> \o WriteError,
                         Some(WriteError)),
                     d, c0)
       ELSE IF dir.kind = "absent"
       THEN gitClone(d1, projectId, repoUrl, branch, ch, c0)
       ELSE IF ~ch.checkIsRepo
       THEN retryClone(d1, projectId, repoUrl, branch, ch, c1)
       ELSE IF dir.kind = "repo"
       THEN pullExisting(d1, projectId, repoUrl, branch, ch, c1)
       ELSE IF ch.rm
       THEN gitClone([d1 EXCEPT !.checkout[projectId] = AbsentCheckout],
                     projectId, repoUrl, branch, ch,
                     Append(c1, GitCall("rmSync", <<>>, "", TRUE)))
       ELSE retryClone(d1, projectId, repoUrl, branch, ch,
                       Append(c1, GitCall("rmSync", <<>>, "", FALSE)))

\* createBranch(projectPath, branchName): git checkout -b, `ok` is whether
\* git itself works
createBranch(d, projectPath, branchName, ok) ==
    LET dir == d.checkout[projectPath]
        created == ok /\ dir.kind = "repo" /\ branchName \notin dir.branches
    IN [result |-> created,
        disk |-> IF created
                 THEN [d EXCEPT !.checkout[projectPath].branch = branchName,
                                !.checkout[projectPath].branches = @ \cup {branchName}]
                 ELSE d]

\* a commitAndPush that pushes the remote's default branch
commitAndPushDefaultBranch(d, projectPath, ok) ==
    LET dir == d.checkout[projectPath]
        pushed == ok /\ dir.kind = "repo"
    IN [result |-> pushed,
        disk |-> IF pushed
                 THEN [d EXCEPT !.checkout[projectPath].pushed =
                                    @ \cup {RemoteDefaultBranch}]
                 ELSE d]

\* commitAndPush(projectPath, message): add, commit, push origin HEAD
commitAndPush(d, projectPath, ok) ==
    LET dir == d.checkout[projectPath]
        pushed == ok /\ dir.kind = "repo"
    IN [result |-> pushed,
        disk |-> IF pushed
                 THEN [d EXCEPT !.checkout[projectPath].pushed = @ \cup {dir.branch}]
                 ELSE d]

----------------------------------------------------------------------------
(* startConversion: one task per start request.  `pc` is the call the task *)
(* awaits, `calls` the collaborator calls it has made so far.              *)

NoProject == VercelProject("", None, None)

Task(projectId, options, pc, calls) ==
    [projectId |-> projectId, options |-> options, pc |-> pc, calls |-> calls,
     project |-> NoProject, repoUrl |-> <<>>, cloneResult |-> None,
     projectPath |-> "", pipeline |-> NoPipeline]

\* a step of startConversion: the store and the task it leaves
Step(store, task) == [store |-> store, task |-> task]

\* a startConversion that does not return where the code returns
Unfinished(task) == task

Finished(task) == [task EXCEPT !.pc = "done"]

Await(task, call) == [task EXCEPT !.pc = call, !.calls = Append(@, call)]

\* lines 86-89: startConversion up to its first await
startConversion(store, projectId, options, env) ==
    LET task == Task(projectId, options, "start", <<>>)
    IN IF ~env.VERCEL_API_TOKEN
       THEN Step(catchUnexpected(store, projectId, MissingTokenError),
                 Finished(task))
       ELSE Step(store, Await(task, "getProject"))

\* an afterGetProject that takes the link of any provider for a repository
afterGetProjectAnyLink(store, task, answer) ==
    LET projectId == task.projectId
        hasGitRepository == answer.gitRepository # None
        hasLinkRepository == answer.link # None
        fromLink == ~hasGitRepository /\ hasLinkRepository
        link == answer.link[1]
        project ==
            IF fromLink
            THEN [answer EXCEPT !.gitRepository =
                     Some(GitRepository(link.type,
                              <<link.org, "/", link.repo>>,
                              <<"https://", "github.com/", link.org, "/", link.repo>>,
                              link.productionBranch))]
            ELSE answer
        s1 == IF fromLink
              THEN pushLogs(store, projectId,
                       <<<<"Detected Git repository from link field: ",
                           link.org, "/", link.repo>>>>)
              ELSE store
        gitRepository == project.gitRepository[1]
        s2 == pushLogs(s1, projectId,
                  << <<"Fetching project details for ", project.name, "...">>,
                     <<"Repository: ">> \o gitRepository.repo >>)
        repoUrl == gitRepository.url
        format == /\ gitRepository.type = "github"
                  /\ ~StartsWith(repoUrl, "https://")
                  /\ ~StartsWith(repoUrl, "git@")
        formattedRepoUrl ==
            IF format
            THEN <<"https://", "github.com/">> \o gitRepository.repo \o <<".git">>
            ELSE repoUrl
        s3 == IF format
              THEN pushLogs(s2, projectId,
                       << <<"Using formatted GitHub URL: ">> \o formattedRepoUrl >>)
              ELSE s2
        s4 == pushLogs(s3, projectId,
                  << <<"Cloning repository from ">> \o formattedRepoUrl \o <<"...">> >>)
    IN IF project.gitRepository = None
       THEN Step(safelyUpdateConversionStatus(s1, projectId, "failed",
                     L("No git repository found for this project"),
                     Some(L("Project doesn't have a connected Git repository"))),
                 Finished([task EXCEPT !.project = project]))
       ELSE Step(s4, Await([task EXCEPT !.project = project,
                                        !.repoUrl = formattedRepoUrl],
                           "cloneRepository"))

\* an afterGetProject that takes every URL without https:// for a shorthand
afterGetProjectFormatsAllButHttps(store, task, answer) ==
    LET projectId == task.projectId
        hasGitRepository == answer.gitRepository # None
        hasLinkRepository == answer.link # None /\ answer.link[1].type = "github"
        fromLink == ~hasGitRepository /\ hasLinkRepository
        link == answer.link[1]
        project ==
            IF fromLink
            THEN [answer EXCEPT !.gitRepository =
                     Some(GitRepository(link.type,
                              <<link.org, "/", link.repo>>,
                              <<"https://", "github.com/", link.org, "/", link.repo>>,
                              link.productionBranch))]
            ELSE answer
        s1 == IF fromLink
              THEN pushLogs(store, projectId,
                       <<<<"Detected Git repository from link field: ",
                           link.org, "/", link.repo>>>>)
              ELSE store
        gitRepository == project.gitRepository[1]
        s2 == pushLogs(s1, projectId,
                  << <<"Fetching project details for ", project.name, "...">>,
                     <<"Repository: ">> \o gitRepository.repo >>)
        repoUrl == gitRepository.url
        format == /\ gitRepository.type = "github"
                  /\ ~StartsWith(repoUrl, "https://")
        formattedRepoUrl ==
            IF format
            THEN <<"https://", "github.com/">> \o gitRepository.repo \o <<".git">>
            ELSE repoUrl
        s3 == IF format
              THEN pushLogs(s2, projectId,
                       << <<"Using formatted GitHub URL: ">> \o formattedRepoUrl >>)
              ELSE s2
        s4 == pushLogs(s3, projectId,
                  << <<"Cloning repository from ">> \o formattedRepoUrl \o <<"...">> >>)
    IN IF project.gitRepository = None
       THEN Step(safelyUpdateConversionStatus(s1, projectId, "failed",
                     L("No git repository found for this project"),
                     Some(L("Project doesn't have a connected Git repository"))),
                 Finished([task EXCEPT !.project = project]))
       ELSE Step(s4, Await([task EXCEPT !.project = project,
                                        !.repoUrl = formattedRepoUrl],
                           "cloneRepository"))

\* lines 91-146: from the answer of getProject to the call of cloneRepository
afterGetProject(store, task, answer) ==
    LET projectId == task.projectId
        hasGitRepository == answer.gitRepository # None
        hasLinkRepository == answer.link # None /\ answer.link[1].type = "github"
        fromLink == ~hasGitRepository /\ hasLinkRepository
        link == answer.link[1]
        project ==
            IF fromLink
            THEN [answer EXCEPT !.gitRepository =
                     Some(GitRepository(link.type,
                              <<link.org, "/", link.repo>>,
                              <<"https://", "github.com/", link.org, "/", link.repo>>,
                              link.productionBranch))]
            ELSE answer
        s1 == IF fromLink
              THEN pushLogs(store, projectId,
                       <<<<"Detected Git repository from link field: ",
                           link.org, "/", link.repo>>>>)
              ELSE store
        gitRepository == project.gitRepository[1]
        s2 == pushLogs(s1, projectId,
                  << <<"Fetching project details for ", project.name, "...">>,
                     <<"Repository: ">> \o gitRepository.repo >>)
        repoUrl == gitRepository.url
        format == /\ gitRepository.type = "github"
                  /\ ~StartsWith(repoUrl, "https://")
                  /\ ~StartsWith(repoUrl, "git@")
        formattedRepoUrl ==
            IF format
            THEN <<"https://", "github.com/">> \o gitRepository.repo \o <<".git">>
            ELSE repoUrl
        s3 == IF format
              THEN pushLogs(s2, projectId,
                       << <<"Using formatted GitHub URL: ">> \o formattedRepoUrl >>)
              ELSE s2
        s4 == pushLogs(s3, projectId,
                  << <<"Cloning repository from ">> \o formattedRepoUrl \o <<"...">> >>)
    IN IF project.gitRepository = None
       THEN Step(safelyUpdateConversionStatus(s1, projectId, "failed",
                     L("No git repository found for this project"),
                     Some(L("Project doesn't have a connected Git repository"))),
                 Finished([task EXCEPT !.project = project]))
       ELSE Step(s4, Await([task EXCEPT !.project = project,
                                        !.repoUrl = formattedRepoUrl],
                           "cloneRepository"))

\* lines 174-183: the pipeline is constructed and run() is called
startPipeline(store, task) ==
    Step(pushLogs(store, task.projectId, <<L("Starting conversion pipeline...")>>),
         Await([task EXCEPT !.pipeline =
                   newPipeline(ConversionOptions(task.projectPath,
                                   task.project.name,
                                   task.options.enableKVCache,
                                   task.options.kvNamespaceId, ""))],
               "run"))

\* an afterCloneRepository that does not return after a failed clone
afterCloneRepositoryNoReturn(store, task, cloneResult) ==
    LET projectId == task.projectId
        s0 == IF cloneResult.success
              THEN store
              ELSE safelyUpdateConversionStatus(store, projectId, "failed",
                       <<"Failed to clone repository: ">> \o cloneResult.message,
                       cloneResult.error)
        s1 == pushLogs(s0, projectId, <<cloneResult.message>>)
        s2 == [s1 EXCEPT ![projectId].status = "converting"]
        t1 == [task EXCEPT !.cloneResult = Some(cloneResult)]
        t2 == [t1 EXCEPT !.projectPath = cloneResult.path]
        branchName == task.options.branchName
    IN IF ~task.options.defined
       THEN Step(catchUnexpected(s2, projectId, UndefinedOptionsError), Finished(t2))
       ELSE IF task.options.createBranch /\ branchName # ""
       THEN Step(pushLogs(s2, projectId,
                     << <<"Creating branch: ", branchName, "...">> >>),
                 Await(t2, "createBranch"))
       ELSE startPipeline(s2, t2)

\* an afterCloneRepository that leaves the status as it is when the clone
\* has succeeded
afterCloneRepositoryKeepsStatus(store, task, cloneResult) ==
    LET projectId == task.projectId
        s1 == pushLogs(store, projectId, <<cloneResult.message>>)
        t1 == [task EXCEPT !.cloneResult = Some(cloneResult)]
        t2 == [t1 EXCEPT !.projectPath = cloneResult.path]
        branchName == task.options.branchName
    IN IF ~cloneResult.success
       THEN Step(safelyUpdateConversionStatus(store, projectId, "failed",
                     <<"Failed to clone repository: ">> \o cloneResult.message,
                     cloneResult.error),
                 Finished(t1))
       ELSE IF ~task.options.defined
       THEN Step(catchUnexpected(s1, projectId, UndefinedOptionsError), Finished(t2))
       ELSE IF task.options.createBranch /\ branchName # ""
       THEN Step(pushLogs(s1, projectId,
                     << <<"Creating branch: ", branchName, "...">> >>),
                 Await(t2, "createBranch"))
       ELSE startPipeline(s1, t2)

\* lines 148-172: from the result of cloneRepository to createBranch or the
\* pipeline
afterCloneRepository(store, task, cloneResult) ==
    LET projectId == task.projectId
        s1 == pushLogs(store, projectId, <<cloneResult.message>>)
        s2 == [s1 EXCEPT ![projectId].status = "converting"]
        t1 == [task EXCEPT !.cloneResult = Some(cloneResult)]
        t2 == [t1 EXCEPT !.projectPath = cloneResult.path]
        branchName == task.options.branchName
    IN IF ~cloneResult.success
       THEN Step(safelyUpdateConversionStatus(store, projectId, "failed",
                     <<"Failed to clone repository: ">> \o cloneResult.message,
                     cloneResult.error),
                 Finished(t1))
       ELSE IF ~task.options.defined
       THEN Step(catchUnexpected(s2, projectId, UndefinedOptionsError), Finished(t2))
       ELSE IF task.options.createBranch /\ branchName # ""
       THEN Step(pushLogs(s2, projectId,
                     << <<"Creating branch: ", branchName, "...">> >>),
                 Await(t2, "createBranch"))
       ELSE startPipeline(s2, t2)

\* an afterCreateBranch that fails the Job when the branch was not created
afterCreateBranchStrict(store, task, branchCreated) ==
    LET branchName == task.options.branchName
    IN IF branchCreated
       THEN startPipeline(
                pushLogs(store, task.projectId,
                    << <<"Created branch: ", branchName>> >>),
                task)
       ELSE Step(safelyUpdateConversionStatus(store, task.projectId, "failed",
                     <<"Failed to create branch ", branchName>>, None),
                 Finished(task))

\* lines 167-183: from the result of createBranch to the pipeline
afterCreateBranch(store, task, branchCreated) ==
    LET branchName == task.options.branchName
    IN startPipeline(
           pushLogs(store, task.projectId,
               << IF branchCreated
                  THEN <<"Created branch: ", branchName>>
                  ELSE <<"Warning: Failed to create branch ", branchName,
                         ". Continuing on current branch.">> >>),
           task)

\* an end of the run that writes the terminal status and leaves the message
\* and the result for later
finalizeStatusOnly(store, task, result) ==
    Step([store EXCEPT
             ![task.projectId].status = IF result.success THEN "success" ELSE "failed"],
         Finished(task))

\* lines 198-201: the final status
finalize(store, task, result) ==
    Step([store EXCEPT
             ![task.projectId].status = IF result.success THEN "success" ELSE "failed",
             ![task.projectId].message = Some(result.message),
             ![task.projectId].result = Some(result)],
         Finished(task))

\* an afterRun that commits and pushes whenever the options ask for it
afterRunAlwaysCommits(store, task, result) ==
    LET s1 == pushLogs(store, task.projectId, result.logs)
    IN IF task.options.commitAndPush
       THEN Step(pushLogs(s1, task.projectId,
                     <<L("Committing and pushing changes...")>>),
                 Await(task, "commitAndPush"))
       ELSE finalize(s1, task, result)

\* an afterRun that replaces the Job's log by the result's log
afterRunSupersedes(store, task, result) ==
    LET s1 == [store EXCEPT ![task.projectId].logs = result.logs]
    IN IF result.success /\ task.options.commitAndPush
       THEN Step(pushLogs(s1, task.projectId,
                     <<L("Committing and pushing changes...")>>),
                 Await(task, "commitAndPush"))
       ELSE finalize(s1, task, result)

\* lines 184-201: from the result of run() to commitAndPush or the end
afterRun(store, task, result) ==
    LET s1 == pushLogs(store, task.projectId, result.logs)
    IN IF result.success /\ task.options.commitAndPush
       THEN Step(pushLogs(s1, task.projectId,
                     <<L("Committing and pushing changes...")>>),
                 Await(task, "commitAndPush"))
       ELSE finalize(s1, task, result)

\* an afterCommitAndPush that fails the Job when nothing was pushed
afterCommitAndPushStrict(store, task, commitResult) ==
    LET result == task.pipeline.result[1]
    IN finalize(
           pushLogs(store, task.projectId,
               << IF commitResult
                  THEN L("Changes committed and pushed successfully")
                  ELSE L("Warning: Failed to commit and push changes") >>),
           task, [result EXCEPT !.success = @ /\ commitResult])

\* lines 191-201: from the result of commitAndPush to the end
afterCommitAndPush(store, task, commitResult) ==
    finalize(
        pushLogs(store, task.projectId,
            << IF commitResult
               THEN L("Changes committed and pushed successfully")
               ELSE L("Warning: Failed to commit and push changes") >>),
        task, task.pipeline.result[1])

----------------------------------------------------------------------------
(* The status feed *)

\* a snapshot of no Job that is an idle entry without a log
PlaceholderIdle ==
    [status |-> "idle", logs |-> <<>>,
     message |-> None, result |-> None, error |-> None]

\* what sendUpdate sends when the store has no entry
Placeholder ==
    [status |-> "cloning",
     logs |-> <<L("Waiting for conversion to start...")>>,
     message |-> None, result |-> None, error |-> None]

\* the snapshot sendUpdate reads: conversionStore[projectId] || placeholder
snapshot(store, projectId) ==
    IF projectId \in DOMAIN store THEN store[projectId] ELSE Placeholder

\* a sendUpdate that goes on only while the status is cloning
sendUpdateWhileCloning(store, stream) ==
    LET status == snapshot(store, stream.projectId)
    IN [stream EXCEPT
           !.last = status,
           !.sent = IF @ < MaxSent THEN @ + 1 ELSE @,
           !.open = status.status = "cloning"]

\* a sendUpdate that sets the timer whatever the status
sendUpdateNeverCloses(store, stream) ==
    LET status == snapshot(store, stream.projectId)
    IN [stream EXCEPT
           !.last = status,
           !.sent = IF @ < MaxSent THEN @ + 1 ELSE @]

\* sendUpdate: enqueue the snapshot, then close the stream on a terminal
\* status, else leave the timer set.  `sent` counts the snapshots, up to
\* MaxSent; `last` is the snapshot sent last.
sendUpdate(store, stream) ==
    LET status == snapshot(store, stream.projectId)
    IN [stream EXCEPT
           !.last = status,
           !.sent = IF @ < MaxSent THEN @ + 1 ELSE @,
           !.open = status.status \notin TerminalStatus]

\* the stream GET constructs, before start(controller) runs
newStream(projectId) ==
    [projectId |-> projectId, open |-> TRUE, sent |-> 0, last |-> Placeholder]

----------------------------------------------------------------------------
(* The state machine *)

\* the disks a process may start with: the storage root present or not, and
\* for each project no directory, a directory that is no repository, or
\* the checkout an earlier process left, on the default branch or on the
\* branch an earlier run created
InitialCheckouts ==
    { AbsentCheckout, OtherDirectory,
      Checkout("repo", "main", {"main"}, NextTree,
               <<"https://", "github.com/", "acme/site">>, {}),
      Checkout("repo", "cloudflare-migration", {"main", "cloudflare-migration"},
               NextTree, <<"https://", "github.com/", "acme/site">>, {}) }

Init ==
    /\ processEnv \in [VERCEL_API_TOKEN : BOOLEAN]
    /\ conversionStore = <<>>
    /\ tasks = <<>>
    /\ disk \in [storage : BOOLEAN, checkout : [ProjectIds -> InitialCheckouts]]
    /\ \A p \in ProjectIds :
           disk.checkout[p].kind # "absent" => disk.storage
    /\ streams = <<>>

\* POST /api/convert with a project id, lines 23-55: the entry is replaced
\* and startConversion runs to its first await
POST(projectId, options) ==
    LET step == startConversion((projectId :> InitialJob) @@ conversionStore,
                                projectId, options, processEnv)
    IN /\ conversionStore' = step.store
       /\ tasks' = Append(tasks, step.task)
       /\ UNCHANGED <<processEnv, disk, streams>>

Resume(i, step) ==
    /\ conversionStore' = step.store
    /\ tasks' = [tasks EXCEPT ![i] = step.task]

\* client.getProject answers
GetProjectReturns(i, answer) ==
    /\ tasks[i].pc = "getProject"
    /\ Resume(i, afterGetProject(conversionStore, tasks[i], answer))
    /\ UNCHANGED <<processEnv, disk, streams>>

\* client.getProject throws
GetProjectThrows(i, error) ==
    /\ tasks[i].pc = "getProject"
    /\ Resume(i, Step(catchUnexpected(conversionStore, tasks[i].projectId, error),
                       Finished(tasks[i])))
    /\ UNCHANGED <<processEnv, disk, streams>>

\* cloneRepository runs and returns its result
CloneRepositoryReturns(i, ch) ==
    /\ tasks[i].pc = "cloneRepository"
    /\ LET t == tasks[i]
           r == cloneRepository(disk, t.projectId, t.repoUrl,
                                t.project.gitRepository[1].defaultBranch, ch)
       IN /\ disk' = r.disk
          /\ Resume(i, afterCloneRepository(conversionStore, t, r.result))
    /\ UNCHANGED <<processEnv, streams>>

\* createBranch runs and returns
CreateBranchReturns(i, ok) ==
    /\ tasks[i].pc = "createBranch"
    /\ LET t == tasks[i]
           r == createBranch(disk, t.projectPath, t.options.branchName, ok)
       IN /\ disk' = r.disk
          /\ Resume(i, afterCreateBranch(conversionStore, t, r.result))
    /\ UNCHANGED <<processEnv, streams>>

\* the step run() awaits runs on the checkout; in a directory that is gone
\* no command runs and no file is written
PipelineStep(i, io) ==
    /\ tasks[i].pc = "run"
    /\ tasks[i].pipeline.next < Returned
    /\ LET t == tasks[i]
           dir == disk.checkout[t.projectPath]
           r == run(t.pipeline, dir.tree,
                    IF dir.kind = "absent"
                    THEN [exec |-> FALSE, write |-> FALSE]
                    ELSE io)
       IN /\ disk' = [disk EXCEPT !.checkout[t.projectPath].tree = r.tree]
          /\ tasks' = [tasks EXCEPT ![i].pipeline = r.pipeline]
    /\ UNCHANGED <<processEnv, conversionStore, streams>>

\* run() has returned its result to startConversion
RunReturns(i) ==
    /\ tasks[i].pc = "run"
    /\ tasks[i].pipeline.next = Returned
    /\ Resume(i, afterRun(conversionStore, tasks[i], tasks[i].pipeline.result[1]))
    /\ UNCHANGED <<processEnv, disk, streams>>

\* commitAndPush runs and returns
CommitAndPushReturns(i, ok) ==
    /\ tasks[i].pc = "commitAndPush"
    /\ LET r == commitAndPush(disk, tasks[i].projectPath, ok)
       IN /\ disk' = r.disk
          /\ Resume(i, afterCommitAndPush(conversionStore, tasks[i], r.result))
    /\ UNCHANGED <<processEnv, streams>>

\* GET /api/convert/status?projectId=..., lines 121-167: the stream is
\* created and start(controller) sends the first snapshot
GET(projectId) ==
    /\ Len(streams) < MaxFeeds
    /\ streams' = Append(streams, sendUpdate(conversionStore, newStream(projectId)))
    /\ UNCHANGED <<processEnv, conversionStore, tasks, disk>>

\* the timer of an open stream fires: sendUpdate again
Tick(f) ==
    /\ streams[f].open
    /\ streams' = [streams EXCEPT ![f] = sendUpdate(conversionStore, streams[f])]
    /\ UNCHANGED <<processEnv, conversionStore, tasks, disk>>

\* one start request for each project identity
StartOnce ==
    \E p \in ProjectIds, o \in RequestOptions :
        /\ \A i \in DOMAIN tasks : tasks[i].projectId # p
        /\ POST(p, o)

\* one run for each project identity, with every input and every outcome
Next ==
    \/ StartOnce
    \/ \E i \in DOMAIN tasks, answer \in VercelProjects : GetProjectReturns(i, answer)
    \/ \E i \in DOMAIN tasks, error \in GetProjectErrors : GetProjectThrows(i, error)
    \/ \E i \in DOMAIN tasks, ch \in CloneChoices : CloneRepositoryReturns(i, ch)
    \/ \E i \in DOMAIN tasks, ok \in BOOLEAN : CreateBranchReturns(i, ok)
    \/ \E i \in DOMAIN tasks, io \in IoChoices : PipelineStep(i, io)
    \/ \E i \in DOMAIN tasks : RunReturns(i)
    \/ \E i \in DOMAIN tasks, ok \in BOOLEAN : CommitAndPushReturns(i, ok)

Spec == Init /\ [][Next]_vars

\* every call a task awaits returns or throws
TaskFairness ==
    /\ WF_vars(\E i \in DOMAIN tasks, answer \in VercelProjects :
                   GetProjectReturns(i, answer))
    /\ WF_vars(\E i \in DOMAIN tasks, ch \in CloneChoices :
                   CloneRepositoryReturns(i, ch))
    /\ WF_vars(\E i \in DOMAIN tasks, ok \in BOOLEAN : CreateBranchReturns(i, ok))
    /\ WF_vars(\E i \in DOMAIN tasks, io \in IoChoices : PipelineStep(i, io))
    /\ WF_vars(\E i \in DOMAIN tasks : RunReturns(i))
    /\ WF_vars(\E i \in DOMAIN tasks, ok \in BOOLEAN : CommitAndPushReturns(i, ok))

FairSpec == Spec /\ TaskFairness

----------------------------------------------------------------------------
(* The feeds and the overlapping runs are explored with fewer inputs: one  *)
(* options object, a project with and one without a repository, a clone    *)
(* that works or does not, a remote that is a Next.js project or is not,   *)
(* and an environment in which commands and writes succeed.                *)

FewOptions == { Options(FALSE, "", FALSE, "", TRUE, "") }

FewProjects ==
    { VercelProject("site",
          Some(GitRepository("github", <<"acme/site">>,
                             <<"https://", "github.com/", "acme/site">>, "main")),
          None),
      VercelProject("site", None, None) }

FewCloneChoices ==
    { c \in CloneChoices :
        /\ c.mkdir /\ c.checkIsRepo /\ c.checkout /\ c.pull /\ c.rm /\ c.rmAgain
        /\ c.remote \in {NextTree, NotNextTree}
        /\ c.clone \in {None, Some(<<"fatal: repository ", "not found">>)} }

SuccessfulIo == [exec |-> TRUE, write |-> TRUE]

\* a process whose storage root exists and holds no checkout yet
InitFew ==
    /\ Init
    /\ disk.storage
    /\ \A p \in ProjectIds : disk.checkout[p] = AbsentCheckout

\* the steps of the tasks, with the few inputs
TaskNextFew ==
    \/ \E i \in DOMAIN tasks, answer \in FewProjects : GetProjectReturns(i, answer)
    \/ \E i \in DOMAIN tasks, ch \in FewCloneChoices : CloneRepositoryReturns(i, ch)
    \/ \E i \in DOMAIN tasks : PipelineStep(i, SuccessfulIo)
    \/ \E i \in DOMAIN tasks : RunReturns(i)

\* one run for each project identity, and the status feeds on it
NextFeed ==
    \/ \E p \in ProjectIds, o \in FewOptions :
           /\ \A i \in DOMAIN tasks : tasks[i].projectId # p
           /\ POST(p, o)
    \/ TaskNextFew
    \/ \E i \in DOMAIN tasks, ok \in BOOLEAN : CommitAndPushReturns(i, ok)
    \/ \E p \in ProjectIds : GET(p)
    \/ \E f \in DOMAIN streams : Tick(f)

SpecFeed == InitFew /\ [][NextFeed]_vars

\* every call a task awaits returns or throws, and every timer fires
FeedFairness ==
    /\ WF_vars(TaskNextFew)
    /\ WF_vars(\E i \in DOMAIN tasks, ok \in BOOLEAN : CommitAndPushReturns(i, ok))
    /\ WF_vars(\E f \in DOMAIN streams : Tick(f))

FairSpecFeed == SpecFeed /\ FeedFairness

\* the options of the overlapping runs: nothing is committed
OverlapOptions == { Options(FALSE, "", FALSE, "", FALSE, "") }

\* start requests in any number up to MaxStarts, also while an earlier run
\* of the same identity is executing
NextOverlap ==
    \/ \E p \in ProjectIds, o \in OverlapOptions :
           /\ Len(tasks) < MaxStarts
           /\ POST(p, o)
    \/ TaskNextFew

SpecOverlap == InitFew /\ [][NextOverlap]_vars

\* start requests one after the other, each when the runs before it have
\* returned, and the status feeds on them
NextRestart ==
    \/ \E p \in ProjectIds, o \in OverlapOptions :
           /\ Len(tasks) < MaxStarts
           /\ \A i \in DOMAIN tasks : tasks[i].pc = "done"
           /\ POST(p, o)
    \/ TaskNextFew
    \/ \E p \in ProjectIds : GET(p)
    \/ \E f \in DOMAIN streams : Tick(f)

SpecRestart == InitFew /\ [][NextRestart]_vars

----------------------------------------------------------------------------
(* The pipeline on its own: new ConversionPipeline(options).run() on a     *)
(* checkout, with every PipelineConfig, and again on the checkout it left  *)

\* runs of the pipeline on one checkout
MaxRuns == 2

PipelineConfigs ==
    { ConversionOptions("prj_1", "site", kv, ns, pj) :
          kv \in BOOLEAN, ns \in {"", "ns123"}, pj \in {"", "src"} }

\* a Next.js project in the sub-path that has no ignore file at all
SubPathBareTree ==
    [EmptyTree EXCEPT
        !.packageJson["src"] = Some(Manifest({}, {"next"}, None))]

\* a Next.js project that was converted before, with the cache enabled
ConvertedTree ==
    [NextTree EXCEPT
        !.openNextConfig["."] =
            Some(openNextConfigText(ConversionOptions("", "old", TRUE, "old", ""))),
        !.wrangler["."] =
            Some(wranglerConfig(ConversionOptions("", "old", TRUE, "old", ""))),
        !.gitignore["."] = Some(<<"node_modules", ".open-next/">>)]

\* a Next.js project whose ignore file names a backup of the build output,
\* and not the build output
BackupIgnoredTree ==
    [NextTree EXCEPT !.gitignore["."] = Some(<<"node_modules", ".open-next.bak">>)]

\* the trees a checkout may hold when the pipeline starts
StartTrees == RemoteTrees \cup {SubPathBareTree, ConvertedTree, BackupIgnoredTree}

\* one pipeline, constructed on a checkout, about to run
InitPipeline ==
    /\ processEnv = [VERCEL_API_TOKEN |-> TRUE]
    /\ conversionStore = <<>>
    /\ \E cfg \in PipelineConfigs :
           tasks = << [Task(cfg.projectPath, NoOptions, "run", <<"run">>)
                          EXCEPT !.projectPath = cfg.projectPath,
                                 !.pipeline = newPipeline(cfg)] >>
    /\ \E tree \in StartTrees :
           disk = [storage |-> TRUE,
                   checkout |-> [p \in ProjectIds |->
                       Checkout("repo", "main", {"main"}, tree,
                                <<"https://", "github.com/", "acme/site">>, {})]]
    /\ streams = <<>>

\* run() has returned: a new pipeline with the same options is constructed
\* on the checkout and run
RunAgain ==
    /\ Len(tasks) < MaxRuns
    /\ Last(tasks).pipeline.next = Returned
    /\ tasks' = Append(tasks, [Last(tasks) EXCEPT
                                  !.pipeline = newPipeline(@.options)])
    /\ UNCHANGED <<processEnv, conversionStore, disk, streams>>

NextPipeline ==
    \/ \E i \in DOMAIN tasks, io \in IoChoices : PipelineStep(i, io)
    \/ RunAgain

SpecPipeline == InitPipeline /\ [][NextPipeline]_vars

----------------------------------------------------------------------------
(* The acquisition on its own: one call of cloneRepository, with a URL as  *)
(* it is or wrapped in whitespace and quote characters, with and without a *)
(* branch, on every disk.  The task is the call; `calls` are the git and   *)
(* file-system calls it makes.                                             *)

BareUrl == <<"https://", "gitlab.com/", "acme/site">>

\* the URL, in whitespace, in quotes, in whitespace outside quotes, and in
\* quotes outside whitespace
WrappedUrls ==
    { BareUrl,
      <<" ">> \o BareUrl \o <<" ">>,
      <<"\"">> \o BareUrl \o <<"\"">>,
      <<" ", "'">> \o BareUrl \o <<"'", " ">>,
      <<"'", " ">> \o BareUrl \o <<" ", "'">> }

\* the branch option: none, or a branch
AcquireBranches == {"", "dev"}

InitAcquire ==
    /\ processEnv = [VERCEL_API_TOKEN |-> TRUE]
    /\ conversionStore = <<>>
    /\ \E url \in WrappedUrls, branch \in AcquireBranches :
           tasks = << [Task("prj_1", NoOptions, "cloneRepository", <<>>)
                          EXCEPT !.repoUrl = url,
                                 !.project = VercelProject("site",
                                     Some(GitRepository("gitlab", <<"acme/site">>,
                                                        url, branch)),
                                     None)] >>
    /\ disk \in [storage : BOOLEAN, checkout : [ProjectIds -> InitialCheckouts]]
    /\ \A p \in ProjectIds :
           disk.checkout[p].kind # "absent" => disk.storage
    /\ streams = <<>>

\* cloneRepository runs and returns
Acquire(i, ch) ==
    /\ tasks[i].pc = "cloneRepository"
    /\ LET t == tasks[i]
           r == cloneRepository(disk, t.projectId, t.repoUrl,
                                t.project.gitRepository[1].defaultBranch, ch)
       IN /\ disk' = r.disk
          /\ tasks' = [tasks EXCEPT ![i] =
                          [Finished(t) EXCEPT !.calls = r.calls,
                                              !.cloneResult = Some(r.result)]]
    /\ UNCHANGED <<processEnv, conversionStore, streams>>

NextAcquire == \E i \in DOMAIN tasks, ch \in CloneChoices : Acquire(i, ch)

SpecAcquire == InitAcquire /\ [][NextAcquire]_vars

----------------------------------------------------------------------------
(* Properties *)

\* the line the catch of run() logs
ErrorLine(line) == StartsWith(line, "Error during conversion: ")

ErrorLines(logs) == {k \in 1..Len(logs) : ErrorLine(logs[k])}

\* what holds of a pipeline at any time: the steps called are the first
\* steps of the fixed order; a failure carries the pipeline's log, whose last
\* line, and no other, is the error line; a success has called all seven
RunOrdered ==
    \A i \in DOMAIN tasks :
        LET p == tasks[i].pipeline
        IN /\ IsPrefix(p.calls, StepOrder)
           /\ (p.result # None /\ ~p.result[1].success) =>
                 /\ p.next = Returned
                 /\ p.result[1].logs = p.logs
                 /\ ErrorLines(p.logs) = {Len(p.logs)}
           /\ (p.result # None /\ p.result[1].success) =>
                 /\ p.calls = StepOrder
                 /\ ErrorLines(p.logs) = {}

\* what holds of every step of a pipeline: a step is called only while no
\* step has raised and run() has not returned, it is the next of the fixed
\* order, it keeps the log so far, and when it raises run() returns the
\* failure; after run() has returned the pipeline does not change
RunStepwise ==
    \A i \in DOMAIN tasks :
        LET p == tasks[i].pipeline
            q == tasks'[i].pipeline
        IN /\ q.calls # p.calls =>
                 /\ p.result = None
                 /\ ErrorLines(p.logs) = {}
                 /\ q.calls = Append(p.calls, StepOrder[Len(p.calls) + 1])
                 /\ IsPrefix(p.logs, q.logs)
                 /\ ErrorLines(q.logs) # {} =>
                        /\ q.result # None
                        /\ ~q.result[1].success
                        /\ q.next = Returned
           /\ p.result # None => q = p

\* C1: run() calls its seven steps in the fixed order, step k only after
\* steps 1..k-1 returned without raising; when a step raises, no later step
\* is called and run() returns success = false with the log so far plus one
\* error line.
C1_StepsInOrder == []RunOrdered /\ [][RunStepwise]_vars

\* a run() that failed in its fifth step, after four steps that returned
C1_Witness ==
    \E i \in DOMAIN tasks :
        LET p == tasks[i].pipeline
        IN /\ p.result # None
           /\ ~p.result[1].success
           /\ Len(p.calls) = 5

\* the changes of status the state machine of a Job has
StatusMoves ==
    { <<"cloning", "converting">>, <<"converting", "success">>,
      <<"cloning", "failed">>, <<"converting", "failed">> }

\* C2: within one run the status of the Job changes only along
\* cloning -> converting -> success, cloning -> failed or converting ->
\* failed: never from converting back to cloning, never away from success or
\* failed, and never to success from anything but converting.
C2_StatusPath ==
    [][\A p \in DOMAIN conversionStore :
           /\ p \in DOMAIN conversionStore'
           /\ \/ conversionStore'[p].status = conversionStore[p].status
              \/ <<conversionStore[p].status, conversionStore'[p].status>>
                     \in StatusMoves]_vars

\* a run that went through converting and ended in success
C2_Witness ==
    \E i \in DOMAIN tasks :
        /\ tasks[i].pc = "done"
        /\ tasks[i].cloneResult # None
        /\ conversionStore[tasks[i].projectId].status = "success"

\* the fields of a Job entry a subscriber sees change
Visible(job) == <<job.status, job.logs, job.message, job.error>>

StepOf(i) == tasks'[i] # tasks[i]

C4_RunTerminates ==
    /\ [](\A i \in DOMAIN tasks :
              tasks[i].pc = "done" =>
                  conversionStore[tasks[i].projectId].status \in TerminalStatus)
    /\ \A p \in ProjectIds :
           (p \in DOMAIN conversionStore)
               ~> (/\ p \in DOMAIN conversionStore
                   /\ conversionStore[p].status \in TerminalStatus)

\* a run that has made each of its five calls and has returned
C4_Witness ==
    \E i \in DOMAIN tasks :
        /\ tasks[i].pc = "done"
        /\ tasks[i].calls = <<"getProject", "cloneRepository", "createBranch",
                              "run", "commitAndPush">>

\* what holds of a feed at any time: it has sent a snapshot, and it is closed
\* exactly if the snapshot it sent last has status success or failed
FeedState ==
    \A f \in DOMAIN streams :
        /\ streams[f].sent >= 1
        /\ ~streams[f].open <=> streams[f].last.status \in TerminalStatus

\* what holds of every step: a feed that changes was open and has sent one
\* snapshot, the Job's entry as it is now
FeedStep ==
    \A f \in DOMAIN streams :
        streams'[f] # streams[f] =>
            /\ streams[f].open
            /\ streams'[f].last = snapshot(conversionStore, streams[f].projectId)
            /\ streams'[f].sent =
                   IF streams[f].sent < MaxSent
                   THEN streams[f].sent + 1 ELSE MaxSent

\* C5: a feed sends one snapshot at once and one on every tick; it closes
\* exactly when the snapshot just sent has status success or failed, sends
\* nothing after closing and never closes on cloning or converting; once the
\* Job is in a terminal status the feed eventually closes.
C5_FeedClosesOnTerminal ==
    /\ []FeedState
    /\ [][FeedStep]_vars
    /\ \A f \in 1..MaxFeeds :
           (/\ f \in DOMAIN streams
            /\ streams[f].projectId \in DOMAIN conversionStore
            /\ conversionStore[streams[f].projectId].status \in TerminalStatus)
               ~> (f \in DOMAIN streams /\ ~streams[f].open)

\* a feed that sent a snapshot of a Job under way and closed on a later one
C5_Witness ==
    \E f \in DOMAIN streams :
        /\ ~streams[f].open
        /\ streams[f].sent >= 2
        /\ streams[f].last.status = "success"

\* C6: a feed that polls an identity without a Job entry sends a snapshot
\* with status cloning and a log of exactly one line, creates no entry and
\* stays open to poll again, before a start request as well as between polls.
C6_PlaceholderSnapshot ==
    [][\A f \in DOMAIN streams' :
           (/\ f \in DOMAIN streams => streams'[f] # streams[f]
            /\ streams'[f].projectId \notin DOMAIN conversionStore)
               => /\ streams'[f].last.status = "cloning"
                  /\ Len(streams'[f].last.logs) = 1
                  /\ streams'[f].open
                  /\ conversionStore' = conversionStore]_vars

\* a feed that has polled twice an identity that has no Job entry
C6_Witness ==
    \E f \in DOMAIN streams :
        /\ streams[f].projectId \notin DOMAIN conversionStore
        /\ streams[f].sent = 2
        /\ streams[f].open

\* the calls that do the work of a run after the lookup
WorkCalls == {"cloneRepository", "createBranch", "run", "commitAndPush"}

\* C7 as stated: when a start request is acknowledged, the Job of its
\* identity has status cloning, it is not failed, and the request has made
\* no acquisition, pipeline or commit/push call.
C7_AcknowledgedWhileCloning ==
    [][Len(tasks') > Len(tasks) =>
           LET t == tasks'[Len(tasks')]
           IN /\ conversionStore'[t.projectId].status = "cloning"
              /\ Range(t.calls) \cap WorkCalls = {}]_vars

\* C8 as stated: a start request for an identity that has a Job entry
\* replaces the entry: afterwards the status is cloning, the log is the one
\* initialization line, and message, error and result are absent.
C8_EntryReplaced ==
    [][\A p \in DOMAIN conversionStore :
           (/\ Len(tasks') > Len(tasks)
            /\ tasks'[Len(tasks')].projectId = p)
               => conversionStore'[p] = InitialJob]_vars

\* C9: when run() has returned and the run has ended, the status of the Job
\* is success if the result's success flag is true and failed if it is not,
\* and the Job's message and result are the result's message and the result
\* itself, whatever createBranch and commitAndPush returned.
C9_FinalStatusFromResult ==
    \A i \in DOMAIN tasks :
        LET t == tasks[i]
            job == conversionStore[t.projectId]
            result == t.pipeline.result[1]
        IN (t.pc = "done" /\ t.pipeline.result # None) =>
               /\ job.status = IF result.success THEN "success" ELSE "failed"
               /\ job.message = Some(result.message)
               /\ job.result = Some(result)

\* a run that ended in success although neither the branch was created nor
\* the changes were pushed
C9_Witness ==
    \E i \in DOMAIN tasks :
        LET job == conversionStore[tasks[i].projectId]
        IN /\ tasks[i].pc = "done"
           /\ job.status = "success"
           /\ Contains(job.logs, L("Warning: Failed to commit and push changes"))
           /\ \E k \in 1..Len(job.logs) :
                  StartsWith(job.logs[k], "Warning: Failed to create branch ")

\* C10: when cloneRepository returns success = false the Job is failed, its
\* message carries the message of the clone and its error the error of the
\* clone; the status has not been converting, and the run has called neither
\* createBranch nor the pipeline nor commitAndPush.
C10_CloneFailureFails ==
    \A i \in DOMAIN tasks :
        LET t == tasks[i]
            job == conversionStore[t.projectId]
            cloneResult == t.cloneResult[1]
        IN /\ t.pc \in {"getProject", "cloneRepository"} => job.status = "cloning"
           /\ (t.cloneResult # None /\ ~cloneResult.success) =>
                  /\ job.status = "failed"
                  /\ job.message =
                         Some(<<"Failed to clone repository: ">> \o cloneResult.message)
                  /\ cloneResult.error # None
                  /\ job.error = cloneResult.error
                  /\ t.pc = "done"
                  /\ t.calls = <<"getProject", "cloneRepository">>
                  /\ t.pipeline = NoPipeline

\* a run whose clone failed for an authentication error
C10_Witness ==
    \E i \in DOMAIN tasks :
        /\ tasks[i].cloneResult # None
        /\ ~tasks[i].cloneResult[1].success
        /\ tasks[i].cloneResult[1].message =
               <<"Failed to clone repository: ",
                 "Authentication failed. This may be a private repository that requires credentials.">>

\* C11: a project with neither a repository descriptor nor a github link
\* makes the run fail with "No git repository found" after the lookup alone:
\* cloneRepository is not called, and the disk changes only in runs whose
\* project has a repository; a link of another provider is no repository.
C11_NoRepositoryNoAcquisition ==
    /\ [](\A i \in DOMAIN tasks :
              LET t == tasks[i]
                  job == conversionStore[t.projectId]
              IN /\ (t.project # NoProject /\ t.project.gitRepository = None) =>
                        /\ t.pc = "done"
                        /\ t.calls = <<"getProject">>
                        /\ t.cloneResult = None
                        /\ job.status = "failed"
                        /\ job.message =
                               Some(L("No git repository found for this project"))
                 /\ (t.project.gitRepository # None /\ t.project.link # None) =>
                        t.project.link[1].type = "github")
    /\ [][disk' # disk =>
              \E i \in DOMAIN tasks :
                  /\ tasks[i].project.gitRepository # None
                  /\ Contains(tasks[i].calls, "cloneRepository")]_vars

\* a run that failed on a project whose only association is a gitlab link
C11_Witness ==
    \E i \in DOMAIN tasks :
        /\ tasks[i].pc = "done"
        /\ tasks[i].project.link # None
        /\ tasks[i].project.link[1].type = "gitlab"
        /\ conversionStore[tasks[i].projectId].status = "failed"

\* the run tasks[i] has met an exception: no token for the client, a lookup
\* that threw, or options that are undefined where the run first reads them
Threw(t) ==
    \/ t.pc = "done" /\ t.calls = <<>>
    \/ t.pc = "done" /\ t.calls = <<"getProject">> /\ t.project = NoProject
    \/ ~t.options.defined /\ t.cloneResult # None /\ t.cloneResult[1].success

\* C12: an exception thrown in startConversion is caught: the run has ended,
\* the Job is failed, the last two lines of its log are the unexpected-failure
\* line and the error-detail line, and its error field holds the detail.
C12_ExceptionCaught ==
    \A i \in DOMAIN tasks :
        LET t == tasks[i]
            job == conversionStore[t.projectId]
            n == Len(job.logs)
        IN Threw(t) =>
               /\ t.pc = "done"
               /\ job.status = "failed"
               /\ job.error # None
               /\ n >= 2
               /\ job.logs[n - 1] =
                      <<"Conversion process failed unexpectedly: ">> \o job.error[1]
               /\ job.logs[n] = <<"Error details: ">> \o job.error[1]
               /\ job.message = Some(job.logs[n - 1])

\* a run that threw after its clone, for want of an options object
C12_Witness ==
    \E i \in DOMAIN tasks :
        /\ ~tasks[i].options.defined
        /\ tasks[i].cloneResult # None
        /\ tasks[i].cloneResult[1].success
        /\ conversionStore[tasks[i].projectId].error = Some(UndefinedOptionsError)

\* C13: commitAndPush is called if and only if the result of the pipeline is
\* a success and the options ask for it; when it was called and nothing was
\* pushed, the log has the warning line and the Job still ends in success.
C13_CommitOnlyOnSuccess ==
    \A i \in DOMAIN tasks :
        LET t == tasks[i]
            job == conversionStore[t.projectId]
            wanted == /\ t.pipeline.result # None
                      /\ t.pipeline.result[1].success
                      /\ t.options.commitAndPush
            called == Contains(t.calls, "commitAndPush")
            pushed == disk.checkout[t.projectPath].pushed # {}
        IN /\ called => wanted
           /\ (wanted /\ t.pc = "done") => called
           /\ (called /\ t.pc = "done") =>
                  /\ job.status = "success"
                  /\ Contains(job.logs, L("Warning: Failed to commit and push changes"))
                         <=> ~pushed
                  /\ Contains(job.logs, L("Changes committed and pushed successfully"))
                         <=> pushed

\* a run that ended in success although its commit and push failed
C13_Witness ==
    \E i \in DOMAIN tasks :
        /\ tasks[i].pc = "done"
        /\ Contains(tasks[i].calls, "commitAndPush")
        /\ disk.checkout[tasks[i].projectPath].pushed = {}
        /\ conversionStore[tasks[i].projectId].status = "success"

\* the line the orchestrator logs when createBranch returned false
BranchWarning(branchName) ==
    <<"Warning: Failed to create branch ", branchName,
      ". Continuing on current branch.">>

\* C14: createBranch is called only if the options ask for it and name a
\* branch; when it has returned, with true or with false, the pipeline is
\* run; a false adds the warning line, and the final status is that of the
\* pipeline's result either way.
C14_BranchFailureNotFatal ==
    \A i \in DOMAIN tasks :
        LET t == tasks[i]
            job == conversionStore[t.projectId]
            called == Contains(t.calls, "createBranch")
            branchName == t.options.branchName
            dir == disk.checkout[t.projectPath]
            created == Contains(job.logs, <<"Created branch: ", branchName>>)
        IN /\ called => (t.options.createBranch /\ branchName # "")
           /\ (called /\ t.pc # "createBranch") =>
                  /\ Contains(t.calls, "run")
                  /\ t.pipeline # NoPipeline
                  /\ Contains(job.logs, BranchWarning(branchName)) <=> ~created
                  /\ created => (dir.branch = branchName /\ branchName \in dir.branches)
                  /\ branchName \notin dir.branches => ~created
           /\ (called /\ t.pc = "done") =>
                  /\ t.pipeline.result # None
                  /\ job.status = IF t.pipeline.result[1].success
                                  THEN "success" ELSE "failed"

\* a run whose branch was not created and whose pipeline ran to its end
C14_Witness ==
    \E i \in DOMAIN tasks :
        LET t == tasks[i]
        IN /\ t.pc = "done"
           /\ Contains(t.calls, "createBranch")
           /\ t.options.branchName \notin disk.checkout[t.projectPath].branches
           /\ t.pipeline.calls = StepOrder

\* C15 as stated: when the options of the start request carry a manifest
\* sub-path, the pipeline the orchestrator runs uses it: its manifest
\* directory is checkout/sub-path.
C15_SubPathUsed ==
    \A i \in DOMAIN tasks :
        LET t == tasks[i]
        IN (t.pipeline # NoPipeline /\ t.options.packageJsonPath # "") =>
               /\ t.pipeline.options.packageJsonPath = t.options.packageJsonPath
               /\ getPackageJsonPath(t.pipeline.options) = t.options.packageJsonPath

\* C16 as stated: while run() is executing, the log lines of the steps that
\* have returned are in the log of the Job.
C16_LogGrowsStepwise ==
    \A i \in DOMAIN tasks :
        LET t == tasks[i]
            job == conversionStore[t.projectId]
        IN (t.pc = "run" /\ t.pipeline.next < Returned) =>
               \A k \in 1..Len(t.pipeline.logs) :
                   Contains(job.logs, t.pipeline.logs[k])

\* the line each step logs first, in the order of the steps
StepStartLines ==
    << L("Verifying Next.js project..."),
       L("Installing OpenNext dependencies..."),
       L("Creating or updating open-next.config.ts..."),
       L("Creating or updating wrangler.jsonc..."),
       L("Updating package.json scripts..."),
       L("Removing conflicting references..."),
       L("Updating .gitignore...") >>

\* the lines one of which each step logs when it has done its work
StepDoneLines ==
    << {L("Next.js project verified")},
       {L("Dependencies installed successfully")},
       {L("open-next.config.ts created/updated")},
       {L("wrangler.jsonc created/updated")},
       {L("package.json scripts updated")},
       {L("Conflicting references removed")},
       {L("Added .open-next to .gitignore"), L(".open-next already in .gitignore")} >>

SuccessMarker == L("Conversion completed successfully!")

\* the first place in logs of a line of the set, 0 if there is none
FirstIndex(logs, lines) ==
    LET at == {k \in 1..Len(logs) : logs[k] \in lines}
    IN IF at = {} THEN 0 ELSE CHOOSE k \in at : \A j \in at : k <= j

\* the last place in logs of a line of the set, 0 if there is none
LastIndex(logs, lines) ==
    LET at == {k \in 1..Len(logs) : logs[k] \in lines}
    IN IF at = {} THEN 0 ELSE CHOOSE k \in at : \A j \in at : k >= j

\* start and completion line of every step are in logs, in the order of the
\* steps, and the success marker comes after them all
StepLinesInOrder(logs) ==
    \A k \in 1..Len(StepStartLines) :
        LET start == FirstIndex(logs, {StepStartLines[k]})
            done == FirstIndex(logs, StepDoneLines[k])
            next == IF k < Len(StepStartLines)
                    THEN FirstIndex(logs, {StepStartLines[k + 1]})
                    ELSE FirstIndex(logs, {SuccessMarker})
        IN /\ 0 < start
           /\ start < done
           /\ done < next
           /\ LastIndex(logs, {StepStartLines[k]}) = start
           /\ LastIndex(logs, StepDoneLines[k]) = done

\* C17: a run whose clone and whose seven steps succeeded ends in success,
\* and the log of its Job has, in the order of the steps, the start line and
\* then the completion line of every step, and after them the success marker.
C17_SuccessLogInOrder ==
    \A i \in DOMAIN tasks :
        LET t == tasks[i]
            job == conversionStore[t.projectId]
        IN (/\ t.pc = "done"
            /\ t.pipeline.result # None
            /\ t.pipeline.result[1].success) =>
               /\ job.status = "success"
               /\ StepLinesInOrder(job.logs)

\* a successful run with the cache enabled and the namespace "abc"
C17_Witness ==
    \E i \in DOMAIN tasks :
        /\ tasks[i].pc = "done"
        /\ tasks[i].options.enableKVCache
        /\ tasks[i].options.kvNamespaceId = "abc"
        /\ tasks[i].pipeline.result # None
        /\ tasks[i].pipeline.result[1].success
        /\ Last(conversionStore[tasks[i].projectId].logs)
               = L("Changes committed and pushed successfully")

\* the manifest the pipeline of tasks[i] is configured to read
ConfiguredManifest(i) ==
    disk.checkout[tasks[i].projectPath].tree
        .packageJson[getPackageJsonPath(tasks[i].pipeline.options)]

DeclaresNext(file) ==
    "next" \in file[1].dependencies \/ "next" \in file[1].devDependencies

\* the step of tasks[i] in which run() calls verifyNextJsProject
VerifyStep(i) ==
    /\ tasks[i].pipeline.calls = <<>>
    /\ tasks'[i].pipeline.calls = <<"verifyNextJsProject">>

\* a finished run whose pipeline stopped in step 1 for want of `next` has a
\* Job that is failed and whose log has a line with the text saying so
NotNextJsReported ==
    \A i \in DOMAIN tasks :
        LET t == tasks[i]
            job == conversionStore[t.projectId]
        IN (/\ t.pc = "done"
            /\ t.pipeline.calls = <<"verifyNextJsProject">>
            /\ ConfiguredManifest(i) # None
            /\ ConfiguredManifest(i)[1].valid) =>
               /\ job.status = "failed"
               /\ \E k \in 1..Len(job.logs) : Includes(job.logs[k], NotNextJsText)

\* C18 as stated: step 1 fails if and only if the manifest is absent at the
\* configured place or declares next in neither group of dependencies; a
\* finished run whose pipeline stopped in step 1 on a manifest that is there
\* has a Job that is failed and whose log has a line containing "does not
\* appear to be a Next.js project".
C18_VerifyFailsIff ==
    /\ [][\A i \in DOMAIN tasks :
              VerifyStep(i) =>
                  (tasks'[i].pipeline.result # None
                       <=> \/ ConfiguredManifest(i) = None
                           \/ ~DeclaresNext(ConfiguredManifest(i)))]_vars
    /\ [](\A i \in DOMAIN tasks :
              LET t == tasks[i]
                  job == conversionStore[t.projectId]
              IN (/\ t.pc = "done"
                  /\ t.pipeline.calls = <<"verifyNextJsProject">>
                  /\ ConfiguredManifest(i) # None) =>
                     /\ job.status = "failed"
                     /\ \E k \in 1..Len(job.logs) :
                            Includes(job.logs[k], NotNextJsText))

\* C18, amended: step 1 fails if and only if the manifest is absent at the
\* configured place, is not valid JSON, or declares next in neither group of
\* dependencies; in the last case the pipeline stops at step 1, the log of
\* the Job has a line containing "does not appear to be a Next.js project"
\* and the Job ends failed.
C18_VerifyFailsIffOrInvalid ==
    /\ [][\A i \in DOMAIN tasks :
              VerifyStep(i) =>
                  (tasks'[i].pipeline.result # None
                       <=> \/ ConfiguredManifest(i) = None
                           \/ ~ConfiguredManifest(i)[1].valid
                           \/ ~DeclaresNext(ConfiguredManifest(i)))]_vars
    /\ []NotNextJsReported

\* a run that ended failed because its manifest does not list next
C18_Witness ==
    \E i \in DOMAIN tasks :
        LET job == conversionStore[tasks[i].projectId]
        IN /\ tasks[i].pc = "done"
           /\ job.status = "failed"
           /\ tasks[i].pipeline.calls = <<"verifyNextJsProject">>
           /\ Includes(Last(job.logs), NotNextJsText)

\* the four files the pipeline writes, in every directory
ConfigFiles(tree) ==
    <<tree.openNextConfig, tree.wrangler, tree.packageJson, tree.gitignore>>

\* the lines of an ignore file that name the build output
OpenNextEntries(content) == {k \in 1..Len(content) : MentionsOpenNext(content[k])}

\* C19: once the pipeline has succeeded on a checkout, no step of a later
\* run with the same config changes the adapter config, the deploy config,
\* the manifest or the ignore file; the ignore file names the build output
\* once.
C19_SecondRunChangesNothing ==
    /\ [][\A i \in DOMAIN tasks :
              (/\ tasks'[i].pipeline # tasks[i].pipeline
               /\ \E j \in 1..(i - 1) :
                      /\ tasks[j].pipeline.result # None
                      /\ tasks[j].pipeline.result[1].success
                      /\ tasks[j].pipeline.options = tasks[i].pipeline.options)
                  => \A p \in ProjectIds :
                         ConfigFiles(disk'.checkout[p].tree)
                             = ConfigFiles(disk.checkout[p].tree)]_vars
    /\ [](\A i \in DOMAIN tasks, p \in ProjectIds, d \in Dirs :
              (/\ tasks[i].pipeline.result # None
               /\ tasks[i].pipeline.result[1].success
               /\ disk.checkout[p].tree.gitignore[d] # None) =>
                  Cardinality(OpenNextEntries(disk.checkout[p].tree.gitignore[d][1]))
                      <= 1)

\* the pipeline has succeeded twice on a checkout whose ignore file it made
C19_Witness ==
    /\ Len(tasks) >= 2
    /\ \A i \in 1..2 :
           /\ tasks[i].pipeline.result # None
           /\ tasks[i].pipeline.result[1].success
    /\ \E p \in ProjectIds :
           disk.checkout[p].tree.gitignore["."]
               = Some(<<"", "# OpenNext build output", ".open-next">>)

\* step k of the pipeline has been called and has returned
StepReturned(pipeline, k) ==
    /\ Len(pipeline.calls) >= k
    /\ pipeline.next > k
    /\ Len(pipeline.calls) = k => (pipeline.result # None => pipeline.result[1].success)

\* C20: the deploy config the pipeline has written lists exactly one KV
\* namespace, binding NEXT_CACHE_WORKERS_KV to the namespace id, if the cache
\* is enabled and the id is not empty, and none otherwise; the adapter config
\* it has written imports and uses the cache override exactly if the cache
\* is enabled.
C20_CacheBinding ==
    \A i \in DOMAIN tasks :
        LET pipeline == tasks[i].pipeline
            options == pipeline.options
            dir == getPackageJsonPath(options)
            tree == disk.checkout[options.projectPath].tree
        IN /\ StepReturned(pipeline, 3) =>
                  /\ tree.openNextConfig[dir] # None
                  /\ Contains(tree.openNextConfig[dir][1], KvImportLine)
                         <=> options.enableKVCache
                  /\ Contains(tree.openNextConfig[dir][1],
                              "  incrementalCache: kvIncrementalCache,")
                         <=> options.enableKVCache
           /\ StepReturned(pipeline, 4) =>
                  /\ tree.wrangler[dir] # None
                  /\ tree.wrangler[dir][1].kv_namespaces =
                         IF options.enableKVCache /\ options.kvNamespaceId # ""
                         THEN <<[binding |-> "NEXT_CACHE_WORKERS_KV",
                                 id |-> options.kvNamespaceId]>>
                         ELSE <<>>

\* the pipeline has replaced the configs of an earlier conversion, which had
\* the cache enabled, by configs without the cache
C20_Witness ==
    \E i \in DOMAIN tasks :
        LET pipeline == tasks[i].pipeline
            tree == disk.checkout[pipeline.options.projectPath].tree
        IN /\ StepReturned(pipeline, 4)
           /\ ~pipeline.options.enableKVCache
           /\ tree.gitignore["."] = Some(<<"node_modules", ".open-next/">>)
           /\ tree.wrangler["."] # None
           /\ tree.wrangler["."][1].kv_namespaces = <<>>

\* cloneRepository of task i returns in this step
AcquireReturns(i) == tasks[i].pc = "cloneRepository" /\ tasks'[i].pc = "done"

\* the positions of the calls of an operation
CallsOf(calls, op) == {k \in DOMAIN calls : calls[k].op = op}

\* the positions of the calls of an operation that returned
ReturnedCallsOf(calls, op) == {k \in CallsOf(calls, op) : calls[k].ok}

PrepareFailure == "Failed to prepare directory for cloning: "

\* C21 as stated: when the local path is a directory that is no repository,
\* cloneRepository removes it and clones; it returns success with a
\* repository in place, or failure, and never with the directory still
\* there.
C21_NonRepositoryNeverLeft ==
    [][\A i \in DOMAIN tasks :
           LET p == tasks[i].projectId
               r == tasks'[i].cloneResult[1]
               calls == tasks'[i].calls
           IN (AcquireReturns(i) /\ disk.checkout[p].kind = "other") =>
                  /\ CallsOf(calls, "rmSync") # {}
                  /\ r.success => disk'.checkout[p].kind = "repo"
                  /\ disk'.checkout[p].kind # "other"]_vars

\* C21: when the local path is a directory that is no repository,
\* cloneRepository tries to remove it; once a removal has worked it clones,
\* and returns success exactly if a repository is in place; the directory is
\* still there on return only if no removal worked, and then no clone was
\* attempted and the result is the failure to prepare the directory.
C21_NonRepositoryLeftOnlyIfNotRemovable ==
    [][\A i \in DOMAIN tasks :
           LET p == tasks[i].projectId
               r == tasks'[i].cloneResult[1]
               calls == tasks'[i].calls
           IN (AcquireReturns(i) /\ disk.checkout[p].kind = "other") =>
                  /\ CallsOf(calls, "rmSync") # {}
                  /\ r.success => disk'.checkout[p].kind = "repo"
                  /\ IF ReturnedCallsOf(calls, "rmSync") # {}
                     THEN /\ Last(calls).op = "clone"
                          /\ disk'.checkout[p].kind \in {"repo", "absent"}
                          /\ r.success <=> disk'.checkout[p].kind = "repo"
                     ELSE /\ CallsOf(calls, "clone") = {}
                          /\ disk'.checkout[p] = disk.checkout[p]
                          /\ ~r.success
                          /\ StartsWith(r.message, PrepareFailure)]_vars

\* a directory that was no repository was removed at the second attempt and
\* a repository cloned in its place
C21_Witness ==
    \E i \in DOMAIN tasks :
        /\ tasks[i].pc = "done"
        /\ tasks[i].calls =
               << GitCall("checkIsRepo", <<>>, "", TRUE),
                  GitCall("rmSync", <<>>, "", FALSE),
                  GitCall("rmSync", <<>>, "", TRUE),
                  GitCall("clone", BareUrl, "dev", TRUE) >>
        /\ tasks[i].cloneResult[1].success
        /\ disk.checkout[tasks[i].projectId].kind = "repo"

PulledMessage == L("Repository already exists locally. Pulled latest changes.")

\* C22: when the local path is a repository, cloneRepository checks out the
\* branch if one is given and then pulls, also after a checkout that failed,
\* which leaves the current branch; when the pull has worked it returns
\* success with the pulled-latest message, having removed and cloned
\* nothing.
C22_ExistingCheckoutPulled ==
    [][\A i \in DOMAIN tasks :
           LET p == tasks[i].projectId
               branch == tasks[i].project.gitRepository[1].defaultBranch
               r == tasks'[i].cloneResult[1]
               calls == tasks'[i].calls
               before == disk.checkout[p]
               after == disk'.checkout[p]
               pull == IF branch # "" THEN 3 ELSE 2
           IN (/\ AcquireReturns(i)
               /\ before.kind = "repo"
               /\ calls[1] = GitCall("checkIsRepo", <<>>, "", TRUE)) =>
                  /\ Len(calls) >= pull
                  /\ branch # "" =>
                         /\ calls[2].op = "checkout"
                         /\ calls[2].branch = branch
                  /\ calls[pull].op = "pull"
                  /\ calls[pull].ok =>
                         /\ Len(calls) = pull
                         /\ r.success
                         /\ r.message = PulledMessage
                         /\ after.tree = before.tree
                         /\ after.kind = "repo"
                         /\ after.branch =
                                IF branch # "" /\ calls[2].ok
                                THEN branch ELSE before.branch]_vars

\* the checkout of the branch failed, the pull on the current branch worked
C22_Witness ==
    \E i \in DOMAIN tasks :
        /\ tasks[i].pc = "done"
        /\ tasks[i].calls =
               << GitCall("checkIsRepo", <<>>, "", TRUE),
                  GitCall("checkout", <<>>, "dev", FALSE),
                  GitCall("pull", <<>>, "", TRUE) >>
        /\ tasks[i].cloneResult[1].success
        /\ tasks[i].cloneResult[1].message = PulledMessage
        /\ disk.checkout[tasks[i].projectId].branch = "main"

\* C23: when the pull on an existing repository fails, cloneRepository
\* returns success = false, removes nothing, clones nothing, and leaves the
\* checkout a repository with the files it had.
C23_PullFailureFatal ==
    [][\A i \in DOMAIN tasks :
           LET p == tasks[i].projectId
               r == tasks'[i].cloneResult[1]
               calls == tasks'[i].calls
           IN (/\ AcquireReturns(i)
               /\ CallsOf(calls, "pull") # {}
               /\ ReturnedCallsOf(calls, "pull") = {}) =>
                  /\ ~r.success
                  /\ CallsOf(calls, "rmSync") = {}
                  /\ CallsOf(calls, "clone") = {}
                  /\ disk'.checkout[p].kind = "repo"
                  /\ disk'.checkout[p].tree = disk.checkout[p].tree]_vars

\* C24: when git.clone has thrown, cloneRepository returns success = false,
\* the local path, the Error, and "Failed to clone repository: " followed by
\* the authentication message if the Error's message contains
\* "Authentication failed", else the not-found message if it contains
\* "not found", else the path-conflict message if it contains
\* "already exists", else the Error's message.
C24_CloneErrorClassified ==
    \A i \in DOMAIN tasks :
        (/\ tasks[i].pc = "done"
         /\ tasks[i].calls # <<>>
         /\ Last(tasks[i].calls).op = "clone"
         /\ ~Last(tasks[i].calls).ok) =>
            LET r == tasks[i].cloneResult[1]
            IN /\ ~r.success
               /\ r.path = tasks[i].projectId
               /\ r.error # None
               /\ r.error[1] \in CloneErrors
               /\ r.message = <<"Failed to clone repository: ">> \o
                      (IF "Authentication failed" \in Range(r.error[1])
                       THEN L("Authentication failed. This may be a private repository that requires credentials.")
                       ELSE IF "not found" \in Range(r.error[1])
                       THEN L("Repository not found. Please verify the URL is correct.")
                       ELSE IF "already exists" \in Range(r.error[1])
                       THEN L("Directory already exists and is not empty.")
                       ELSE r.error[1])

\* git.clone threw an Error that speaks of "not found" and of
\* "Authentication failed": the authentication message is reported
C24_Witness ==
    \E i \in DOMAIN tasks :
        /\ tasks[i].pc = "done"
        /\ tasks[i].calls # <<>>
        /\ Last(tasks[i].calls) = GitCall("clone", BareUrl, "", FALSE)
        /\ tasks[i].cloneResult[1].error =
               Some(<<"remote: Repository ", "not found", ". fatal: ",
                      "Authentication failed">>)
        /\ tasks[i].cloneResult[1].message =
               <<"Failed to clone repository: ",
                 "Authentication failed. This may be a private repository that requires credentials.">>

\* C25: whatever whitespace and quote characters the URL is wrapped in, in
\* whatever order, git.clone is called with the bare URL, and cleaning the
\* cleaned URL gives the cleaned URL.
C25_WrappedUrlCloned ==
    \A i \in DOMAIN tasks :
        \A k \in CallsOf(tasks[i].calls, "clone") :
            /\ tasks[i].calls[k].url = BareUrl
            /\ cleanRepoUrl(tasks[i].calls[k].url) = tasks[i].calls[k].url

\* the runs of a project identity that are executing while its Job says so
ActiveRuns(p) ==
    {i \in DOMAIN tasks :
        /\ tasks[i].projectId = p
        /\ tasks[i].pc # "done"
        /\ p \in DOMAIN conversionStore
        /\ conversionStore[p].status \in {"cloning", "converting"}}

\* C26: at any time at most one run of a project identity is executing
\* with the Job in cloning or converting, also when a start request arrives
\* while a run is in progress.
C26_OneActiveRun == \A p \in ProjectIds : Cardinality(ActiveRuns(p)) <= 1

\* C27: while a run awaits cloneRepository or createBranch its Job is in
\* cloning; createBranch is never called with the Job in converting.
C27_BranchSetupWhileCloning ==
    \A i \in DOMAIN tasks :
        tasks[i].pc \in {"cloneRepository", "createBranch"} =>
            conversionStore[tasks[i].projectId].status = "cloning"

\* run i calls the step `name` in this step
CallsStep(i, name) ==
    /\ i \in DOMAIN tasks
    /\ tasks'[i].pipeline.calls = Append(tasks[i].pipeline.calls, name)

\* C28: when step 1 fails, it is the only step that was called, run()
\* returns, and the checkout is as it was when run() was called: nothing
\* installed, no config file created or overwritten, manifest and ignore
\* file unchanged.
C28_FailedVerifyChangesNothing ==
    [][\A i \in DOMAIN tasks :
           (/\ CallsStep(i, "verifyNextJsProject")
            /\ tasks'[i].pipeline.result # None) =>
               /\ ~tasks'[i].pipeline.result[1].success
               /\ tasks'[i].pipeline.calls = <<"verifyNextJsProject">>
               /\ tasks'[i].pipeline.next = Returned
               /\ disk' = disk]_vars

\* step 1 has failed on a checkout whose manifest does not declare next,
\* and the checkout has neither packages nor config files
C28_Witness ==
    \E i \in DOMAIN tasks :
        LET pipeline == tasks[i].pipeline
            tree == disk.checkout[pipeline.options.projectPath].tree
        IN /\ pipeline.calls = <<"verifyNextJsProject">>
           /\ pipeline.result # None
           /\ ~pipeline.result[1].success
           /\ Includes(pipeline.result[1].message, "This project ")
           /\ tree = NotNextTree

\* the manifest step 1 reads is there, parses and declares next
ManifestAccepted(options, tree) ==
    LET file == tree.packageJson[getPackageJsonPath(options)]
    IN /\ file # None
       /\ file[1].valid
       /\ "next" \in file[1].dependencies \cup file[1].devDependencies

\* C29: on a manifest step 1 accepts, whatever the scan command does, step 1
\* returns; it logs the warning exactly if the command succeeded with
\* output and the no-usage line exactly otherwise; and run() goes on to
\* step 2.
C29_ScanNeverAborts ==
    /\ [](\A i \in DOMAIN tasks, io \in IoChoices :
              LET pipeline == tasks[i].pipeline
                  tree == disk.checkout[pipeline.options.projectPath].tree
                  r == verifyNextJsProject(pipeline.options, pipeline.logs,
                                           tree, io)
                  found == io.exec /\ grepEdgeRuntime(tree) # {}
              IN (pipeline.next = 1 /\ ManifestAccepted(pipeline.options, tree)) =>
                     /\ r.error = None
                     /\ r.tree = tree
                     /\ Last(r.logs) = (IF found THEN EdgeWarning ELSE NoEdgeUsage)
                     /\ Contains(r.logs, EdgeWarning) <=> found
                     /\ Contains(r.logs, NoEdgeUsage) <=> ~found)
    /\ [][\A i \in DOMAIN tasks :
              LET pipeline == tasks[i].pipeline
                  tree == disk.checkout[pipeline.options.projectPath].tree
              IN (/\ CallsStep(i, "verifyNextJsProject")
                  /\ ManifestAccepted(pipeline.options, tree)) =>
                     /\ tasks'[i].pipeline.result = None
                     /\ tasks'[i].pipeline.next = 2
                     /\ StepOrder[2] = "installDependencies"
                     /\ Last(tasks'[i].pipeline.logs) \in {EdgeWarning, NoEdgeUsage}]_vars

\* the scan failed on a checkout that declares the edge runtime: the
\* no-usage line was logged and step 2 was called
C29_Witness ==
    \E i \in DOMAIN tasks :
        LET pipeline == tasks[i].pipeline
            tree == disk.checkout[pipeline.options.projectPath].tree
        IN /\ grepEdgeRuntime(tree) # {}
           /\ Contains(pipeline.logs, NoEdgeUsage)
           /\ ~Contains(pipeline.logs, EdgeWarning)
           /\ Len(pipeline.calls) >= 2
           /\ pipeline.calls[2] = "installDependencies"

\* C30: when the substitution command of step 6 succeeds, the declarations
\* it replaces are the declarations the scan of step 1 reports.
C30_ScanMatchesSubstitution ==
    [][\A i \in DOMAIN tasks :
           LET pipeline == tasks[i].pipeline
               p == pipeline.options.projectPath
           IN (/\ CallsStep(i, "removeConflictingReferences")
               /\ Contains(tasks'[i].pipeline.logs,
                           L("Removed edge runtime declarations from files"))) =>
                  disk.checkout[p].tree.edge \ disk'.checkout[p].tree.edge
                      = grepEdgeRuntime(disk.checkout[p].tree)]_vars

\* C31: a step 5 that returns leaves a manifest with a scripts section in
\* which preview, deploy and cf-typegen are the three fixed commands and
\* every other entry is as before; the dependency groups and every other
\* file of the checkout are as before.
C31_ScriptsSetOthersKept ==
    [][\A i \in DOMAIN tasks :
           LET options == tasks[i].pipeline.options
               dir == getPackageJsonPath(options)
               before == disk.checkout[options.projectPath].tree
               after == disk'.checkout[options.projectPath].tree
               old == IF before.packageJson[dir][1].scripts = None THEN <<>>
                      ELSE before.packageJson[dir][1].scripts[1]
               new == after.packageJson[dir][1].scripts[1]
               fixed == {"preview", "deploy", "cf-typegen"}
           IN (CallsStep(i, "updatePackageJson")
                   /\ tasks'[i].pipeline.result = None) =>
                  /\ after.packageJson[dir][1].scripts # None
                  /\ DOMAIN new = DOMAIN old \cup fixed
                  /\ new["preview"] = "opennextjs-cloudflare build && wrangler dev"
                  /\ new["deploy"] = "opennextjs-cloudflare build && wrangler deploy"
                  /\ new["cf-typegen"] =
                         "wrangler types --env-interface CloudflareEnv cloudflare-env.d.ts"
                  /\ \A k \in DOMAIN old \ fixed : new[k] = old[k]
                  /\ after = [before EXCEPT !.packageJson[dir] =
                                 Some([before.packageJson[dir][1] EXCEPT
                                          !.scripts = Some(new)])]]_vars

\* step 5 has returned on a manifest that had a dev script: the script is
\* there next to the three entries
C31_Witness ==
    \E i \in DOMAIN tasks :
        LET pipeline == tasks[i].pipeline
            file == disk.checkout[pipeline.options.projectPath]
                        .tree.packageJson[getPackageJsonPath(pipeline.options)]
        IN /\ StepReturned(pipeline, 5)
           /\ file # None
           /\ file[1].scripts # None
           /\ DOMAIN file[1].scripts[1] = {"dev", "preview", "deploy", "cf-typegen"}
           /\ file[1].scripts[1]["dev"] = "next dev"

SubstitutionNote ==
    L("Note: Could not automatically remove edge runtime declarations. You may need to remove these manually.")

\* how often a line occurs in a log
Occurrences(logs, line) == Cardinality({k \in DOMAIN logs : logs[k] = line})

\* C32: a step 6 that returns leaves a manifest without the legacy adapter
\* in either dependency group, has logged one removal line for each group
\* that held it, keeps the scripts, and ends with its completion line
\* whether the substitution command worked or failed, a failure adding the
\* note line only; run() goes on to step 7.
C32_LegacyAdapterRemoved ==
    [][\A i \in DOMAIN tasks :
           LET options == tasks[i].pipeline.options
               dir == getPackageJsonPath(options)
               before == disk.checkout[options.projectPath].tree.packageJson[dir][1]
               after == disk'.checkout[options.projectPath].tree.packageJson[dir][1]
               logs == tasks'[i].pipeline.logs
               added == SubSeq(logs, Len(tasks[i].pipeline.logs) + 1, Len(logs))
           IN (CallsStep(i, "removeConflictingReferences")
                   /\ tasks'[i].pipeline.result = None) =>
                  /\ "@cloudflare/next-on-pages" \notin
                         after.dependencies \cup after.devDependencies
                  /\ Occurrences(added, L("Removed @cloudflare/next-on-pages from dependencies"))
                         = IF "@cloudflare/next-on-pages" \in before.dependencies
                           THEN 1 ELSE 0
                  /\ Occurrences(added, L("Removed @cloudflare/next-on-pages from devDependencies"))
                         = IF "@cloudflare/next-on-pages" \in before.devDependencies
                           THEN 1 ELSE 0
                  /\ after.scripts = before.scripts
                  /\ {"preview", "deploy", "cf-typegen"} \subseteq DOMAIN after.scripts[1]
                  /\ Last(added) = L("Conflicting references removed")
                  /\ added[Len(added) - 1] \in
                         {SubstitutionNote, L("Removed edge runtime declarations from files")}
                  /\ tasks'[i].pipeline.next = 7
                  /\ StepOrder[7] = "updateGitignore"]_vars
    /\ [](\A i \in DOMAIN tasks, io \in IoChoices :
              LET pipeline == tasks[i].pipeline
                  r == removeConflictingReferences(
                           pipeline.options, pipeline.logs,
                           disk.checkout[pipeline.options.projectPath].tree, io)
              IN (pipeline.next = 6 /\ io.write) =>
                     /\ r.error = None
                     /\ Last(r.logs) = L("Conflicting references removed")
                     /\ Contains(r.logs, SubstitutionNote) <=> ~io.exec)
    /\ [](\A i \in DOMAIN tasks :
              LET pipeline == tasks[i].pipeline
              IN Contains(pipeline.logs, SubstitutionNote) =>
                     /\ Contains(pipeline.logs, L("Conflicting references removed"))
                     /\ pipeline.next >= 7
                     /\ pipeline.result # None =>
                            "updateGitignore" \in Range(pipeline.calls))

\* step 6 has removed the adapter from both groups, its substitution
\* command has failed, and step 7 was called
C32_Witness ==
    \E i \in DOMAIN tasks :
        LET logs == tasks[i].pipeline.logs
        IN /\ Contains(logs, L("Removed @cloudflare/next-on-pages from dependencies"))
           /\ Contains(logs, L("Removed @cloudflare/next-on-pages from devDependencies"))
           /\ Contains(logs, SubstitutionNote)
           /\ Contains(logs, L("Conflicting references removed"))
           /\ Last(tasks[i].pipeline.calls) = "updateGitignore"

\* a line of an ignore file that is the entry for the build output
IsOpenNextEntry(line) == line \in {".open-next", ".open-next/", "/.open-next"}

\* C33: a step 7 that returns has written to the root ignore file if it
\* exists, to the sub-path ignore file if a sub-path is configured, the root
\* file is absent and the sub-path file exists, and to a new root file
\* otherwise; the file then has the build output as an entry of its own,
\* appended only if no such entry was there, after every line it had.
C33_IgnoreEntryPresent ==
    [][\A i \in DOMAIN tasks :
           LET options == tasks[i].pipeline.options
               before == disk.checkout[options.projectPath].tree
               after == disk'.checkout[options.projectPath].tree
               sub == options.packageJsonPath
               chosen == IF before.gitignore["."] # None THEN "."
                         ELSE IF sub # "" /\ before.gitignore[sub] # None
                         THEN sub ELSE "."
               old == IF before.gitignore[chosen] = None THEN <<>>
                      ELSE before.gitignore[chosen][1]
               had == \E k \in DOMAIN old : IsOpenNextEntry(old[k])
           IN (/\ CallsStep(i, "updateGitignore")
               /\ tasks'[i].pipeline.result # None
               /\ tasks'[i].pipeline.result[1].success) =>
                  /\ after.gitignore[chosen] # None
                  /\ \E k \in DOMAIN after.gitignore[chosen][1] :
                         IsOpenNextEntry(after.gitignore[chosen][1][k])
                  /\ IsPrefix(old, after.gitignore[chosen][1])
                  /\ had => after.gitignore[chosen][1] = old
                  /\ \A d \in Dirs \ {chosen} :
                         after.gitignore[d] = before.gitignore[d]]_vars

\* the direct descriptor startConversion works with for an answer of
\* getProject: the answer's own, or the one made from a github link
Descriptor(answer) ==
    IF answer.gitRepository # None THEN answer.gitRepository
    ELSE IF answer.link # None /\ answer.link[1].type = "github"
    THEN Some(GitRepository("github",
                  <<answer.link[1].org, "/", answer.link[1].repo>>,
                  <<"https://", "github.com/", answer.link[1].org, "/",
                    answer.link[1].repo>>,
                  answer.link[1].productionBranch))
    ELSE None

CommitLines ==
    { <<>>,
      <<L("Committing and pushing changes..."),
        L("Changes committed and pushed successfully")>>,
      <<L("Committing and pushing changes..."),
        L("Warning: Failed to commit and push changes")>> }

\* C35: the log of a Job that is in a terminal status with the result of a
\* pipeline is the log of that result, followed by the commit and push lines
\* if there are any, and holds no line of the result twice.
C35_ResultLogSupersedes ==
    \A p \in DOMAIN conversionStore :
        LET job == conversionStore[p]
        IN (job.status \in TerminalStatus /\ job.result # None) =>
               /\ \E lines \in CommitLines : job.logs = job.result[1].logs \o lines
               /\ \A k \in DOMAIN job.result[1].logs :
                      Occurrences(job.logs, job.result[1].logs[k]) = 1

\* C36: in a run every step leaves the lines of the Job's log where they
\* are and at most adds lines at the end; the step in which run() returns
\* adds the lines of the result, in their order and together, after the
\* lines logged before and before any line about commit and push.
C36_LogAppendOnly ==
    [][/\ \A p \in DOMAIN conversionStore :
              IsPrefix(conversionStore[p].logs, conversionStore'[p].logs)
       /\ \A i \in DOMAIN tasks :
              LET p == tasks[i].projectId
                  result == tasks[i].pipeline.result[1]
              IN (tasks[i].pc = "run" /\ tasks'[i].pc # "run") =>
                     conversionStore'[p].logs \in
                         { conversionStore[p].logs \o result.logs,
                           conversionStore[p].logs \o result.logs
                               \o <<L("Committing and pushing changes...")>> }]_vars

\* a run has ended in success after commit and push: its log ends with the
\* result's lines and the two lines about commit and push
C36_Witness ==
    \E p \in DOMAIN conversionStore :
        LET job == conversionStore[p]
            n == Len(job.logs)
        IN /\ job.status = "success"
           /\ job.result # None
           /\ n > Len(job.result[1].logs) + 2
           /\ job.logs[n] = L("Changes committed and pushed successfully")
           /\ SubSeq(job.logs, n - 1 - Len(job.result[1].logs), n - 2)
                  = job.result[1].logs

\* a Job that has all its run wrote at the end: the message, the lines of
\* the result if there is one, and the error line if there is an error
Complete(job) ==
    /\ job.message # None
    /\ job.result # None =>
           /\ job.message = Some(job.result[1].message)
           /\ \E lines \in CommitLines, n \in 0..Len(job.logs) :
                  job.logs = SubSeq(job.logs, 1, n) \o job.result[1].logs \o lines
    /\ job.result = None => Contains(job.logs, job.message[1])
    /\ job.error # None =>
           Last(job.logs) = <<"Error details: ">> \o job.error[1]

\* C37: a Job in success or failed is complete, and its run has returned, in
\* every state, so that the snapshot on which a feed closes is the complete
\* and final Job.
C37_TerminalSnapshotComplete ==
    /\ \A p \in DOMAIN conversionStore :
           conversionStore[p].status \in TerminalStatus =>
               /\ Complete(conversionStore[p])
               /\ \A i \in DOMAIN tasks :
                      tasks[i].projectId = p => tasks[i].pc = "done"
    /\ \A f \in DOMAIN streams :
           streams[f].last.status \in TerminalStatus =>
               /\ ~streams[f].open
               /\ Complete(streams[f].last)
               /\ streams[f].last = conversionStore[streams[f].projectId]

\* a feed that has sent a snapshot of the run under way has closed on the
\* failed Job, whose last line is the error detail
C37_Witness ==
    \E f \in DOMAIN streams :
        /\ ~streams[f].open
        /\ streams[f].last.status = "failed"
        /\ streams[f].last.error # None
        /\ StartsWith(Last(streams[f].last.logs), "Error details: ")
        /\ streams[f].sent >= 2

\* C38: a feed opened on a Job in success or failed sends that Job as its
\* one snapshot and closes at once; a closed feed sends nothing more,
\* whatever start request follows.
C38_LateFeedSeesOnlyEarlierRun ==
    [][/\ \A f \in DOMAIN streams' \ DOMAIN streams :
              LET p == streams'[f].projectId
              IN (/\ p \in DOMAIN conversionStore
                  /\ conversionStore[p].status \in TerminalStatus) =>
                     /\ streams'[f].sent = 1
                     /\ ~streams'[f].open
                     /\ streams'[f].last = conversionStore[p]
       /\ \A f \in DOMAIN streams :
              ~streams[f].open => streams'[f] = streams[f]]_vars

\* a feed has closed on its first snapshot, the failed Job of the first
\* run, and a second run of the identity is converting
C38_Witness ==
    \E f \in DOMAIN streams :
        /\ ~streams[f].open
        /\ streams[f].sent = 1
        /\ streams[f].last.status = "failed"
        /\ Len(tasks) = 2
        /\ tasks[1].projectId = streams[f].projectId
        /\ tasks[2].projectId = streams[f].projectId
        /\ conversionStore[streams[f].projectId].status = "converting"

\* the run tasks[i] was asked for a branch and for commit and push, has
\* called createBranch, which failed, and its pipeline has succeeded
BranchFailedPipelineSucceeded(i) ==
    /\ tasks[i].options.defined
    /\ tasks[i].options.createBranch
    /\ tasks[i].options.branchName # ""
    /\ tasks[i].options.commitAndPush
    /\ "createBranch" \in Range(tasks[i].calls)
    /\ Contains(conversionStore[tasks[i].projectId].logs,
                BranchWarning(tasks[i].options.branchName))
    /\ tasks[i].pc \in {"commitAndPush", "done"}
    /\ tasks[i].pipeline.result # None
    /\ tasks[i].pipeline.result[1].success

\* commitAndPush of the run tasks[i] returns true in this step
Pushes(i) ==
    /\ tasks[i].pc = "commitAndPush"
    /\ tasks'[i].pc = "done"
    /\ Last(conversionStore'[tasks[i].projectId].logs)
           = L("Changes committed and pushed successfully")

\* C39 as stated: when branch creation has failed and the pipeline has
\* succeeded, commitAndPush is called, and what it pushes is the branch that
\* is checked out, which is the project's default branch.
C39_PushesDefaultBranch ==
    /\ [](\A i \in DOMAIN tasks :
              BranchFailedPipelineSucceeded(i) =>
                  "commitAndPush" \in Range(tasks[i].calls))
    /\ [][\A i \in DOMAIN tasks :
              (BranchFailedPipelineSucceeded(i) /\ Pushes(i)) =>
                  LET before == disk.checkout[tasks[i].projectPath]
                      after == disk'.checkout[tasks[i].projectPath]
                  IN /\ after.pushed = before.pushed \cup {before.branch}
                     /\ before.branch =
                            tasks[i].project.gitRepository[1].defaultBranch]_vars

\* C39: when branch creation has failed and the pipeline has succeeded,
\* commitAndPush is called, and what it pushes is the branch that is checked
\* out; that is the branch acquisition left: the default branch after a
\* clone, and after a pull the default branch or, the checkout of it having
\* failed, the branch the directory was on.
C39_PushesBranchLeftByAcquisition ==
    /\ [](\A i \in DOMAIN tasks :
              BranchFailedPipelineSucceeded(i) =>
                  "commitAndPush" \in Range(tasks[i].calls))
    /\ [][\A i \in DOMAIN tasks :
              LET before == disk.checkout[tasks[i].projectId]
                  after == disk'.checkout[tasks[i].projectId]
                  default == tasks[i].project.gitRepository[1].defaultBranch
              IN /\ (BranchFailedPipelineSucceeded(i) /\ Pushes(i)) =>
                        /\ after.pushed = before.pushed \cup {before.branch}
                        /\ after.branch = before.branch
                 /\ (tasks[i].pc = "cloneRepository" /\ tasks'[i].cloneResult # None) =>
                        IF tasks'[i].cloneResult[1].message
                               = L("Repository cloned successfully.")
                        THEN after.branch = default
                        ELSE tasks'[i].cloneResult[1].message = PulledMessage =>
                                 after.branch \in {default, before.branch}
                 /\ (/\ StepOf(i)
                     /\ tasks[i].pc \in {"createBranch", "run"}
                     /\ ~Contains(conversionStore'[tasks[i].projectId].logs,
                                  <<"Created branch: ", tasks[i].options.branchName>>)) =>
                        after.branch = before.branch]_vars

\* the directory was on the branch of an earlier run, the checkout of the
\* default branch failed, the branch could not be created again, and the
\* conversion was pushed on the earlier run's branch
C39_Witness ==
    \E i \in DOMAIN tasks :
        /\ BranchFailedPipelineSucceeded(i)
        /\ tasks[i].pc = "done"
        /\ tasks[i].options.branchName = "cloudflare-migration"
        /\ tasks[i].project.gitRepository[1].defaultBranch = "main"
        /\ disk.checkout[tasks[i].projectId].branch = "cloudflare-migration"
        /\ disk.checkout[tasks[i].projectId].pushed = {"cloudflare-migration"}

\* the adapter config of the tree uses the KV cache
AdapterUsesKv(tree, dir) ==
    /\ tree.openNextConfig[dir] # None
    /\ Contains(tree.openNextConfig[dir][1], KvImportLine)
    /\ Contains(tree.openNextConfig[dir][1], "  incrementalCache: kvIncrementalCache,")

\* the deploy config of the tree binds a KV namespace
WranglerBindsKv(tree, dir) ==
    /\ tree.wrangler[dir] # None
    /\ tree.wrangler[dir][1].kv_namespaces # <<>>

\* C40: when the pipeline has succeeded, the adapter config uses the KV
\* cache exactly if the cache is enabled, and the deploy config binds a
\* namespace exactly if the cache is enabled with a non-empty id; so with
\* the cache enabled and no id the pipeline succeeds with a cache and no
\* binding, and the two files agree exactly if the cache is disabled or an
\* id is given.
C40_ConfigsAgreeOnlyWithId ==
    \A i \in DOMAIN tasks :
        LET pipeline == tasks[i].pipeline
            options == pipeline.options
            dir == getPackageJsonPath(options)
            tree == disk.checkout[options.projectPath].tree
        IN (pipeline.result # None /\ pipeline.result[1].success) =>
               /\ AdapterUsesKv(tree, dir) <=> options.enableKVCache
               /\ WranglerBindsKv(tree, dir)
                      <=> (options.enableKVCache /\ options.kvNamespaceId # "")
               /\ (AdapterUsesKv(tree, dir) <=> WranglerBindsKv(tree, dir))
                      <=> (~options.enableKVCache \/ options.kvNamespaceId # "")

\* the pipeline has succeeded with the cache enabled and no namespace id:
\* the adapter config uses the cache and the deploy config binds nothing
C40_Witness ==
    \E i \in DOMAIN tasks :
        LET pipeline == tasks[i].pipeline
            options == pipeline.options
            dir == getPackageJsonPath(options)
            tree == disk.checkout[options.projectPath].tree
        IN /\ pipeline.result # None
           /\ pipeline.result[1].success
           /\ options.enableKVCache
           /\ options.kvNamespaceId = ""
           /\ AdapterUsesKv(tree, dir)
           /\ tree.wrangler[dir] # None
           /\ tree.wrangler[dir][1].kv_namespaces = <<>>

====
